---- MODULE Spec2Model ----
(***************************************************************************)
(* A model of HyperCalibrate: the Calibration record and its operations    *)
(* (config.rs, calibration.rs), the shared AppState with its HTTP handlers *)
(* and the capture pipeline (server.rs, capture.rs, main.rs) and the       *)
(* loopback writer (output.rs).                                            *)
(*                                                                         *)
(* Real coordinates are modelled exactly as integers in tenths (One = 1.0) *)
(* and the edge parameter t as an exact fraction [n, d].                   *)
(***************************************************************************)
EXTENDS Integers, Sequences, FiniteSets, TLC

\* ----------------------------------------------------------------------
\* Bounds of the model
\* ----------------------------------------------------------------------
\* at most this many ids are drawn from next_edge_point_id after a default
MaxAdds == 2

\* ----------------------------------------------------------------------
\* Program constants
\* ----------------------------------------------------------------------
\* the real number 1.0, in model units (tenths)
One == 10
\* VideoConfig::default width and height
Width == 640
Height == 480
\* first edge point id
FirstEdgePointId == 100

\* ----------------------------------------------------------------------
\* Inputs
\* ----------------------------------------------------------------------
\* request coordinates (x, y) in tenths; <<15, -5>> lies outside [0,1]^2
InPoints == { <<3, 1>>, <<15, -5>> }
\* requested edge values; 7 names no edge
InEdges == { 0, 1, 7 }
\* ids named by update and delete requests; 999 names no point
InIds == { 0, 100, 101, 999 }

\* ----------------------------------------------------------------------
\* config.rs: Point, EdgePoint, Calibration
\* ----------------------------------------------------------------------
Point(x, y) == [x |-> x, y |-> y]

EdgePoint(id, edge, t, x, y) == [id |-> id, edge |-> edge, t |-> t, x |-> x, y |-> y]

clamp(v) == IF v < 0 THEN 0 ELSE IF v > One THEN One ELSE v

\* an exact fraction n/d, d > 0
Frac(n, d) == [n |-> n, d |-> d]
FracLess(a, b) == a.n * b.d < b.n * a.d

CalibrationDefault ==
    [ corners |-> << Point(1, 1), Point(9, 1), Point(9, 9), Point(1, 9) >>,
      edge_points |-> << >>,
      next_edge_point_id |-> FirstEdgePointId,
      enabled |-> TRUE ]

\* (from_idx, to_idx) of an edge, as 1-based indices into corners
EdgeEnds(edge) ==
    CASE edge = 0 -> << 1, 2 >>
      [] edge = 1 -> << 2, 3 >>
      [] edge = 2 -> << 3, 4 >>
      [] edge = 3 -> << 4, 1 >>

calculate_t_for_edge_static(edge, x, y, corners) ==
    IF edge \notin 0..3 THEN Frac(1, 2)
    ELSE LET from == corners[EdgeEnds(edge)[1]]
             to == corners[EdgeEnds(edge)[2]]
             dx == to.x - from.x
             dy == to.y - from.y
             len_sq == dx * dx + dy * dy
             num == (x - from.x) * dx + (y - from.y) * dy
         IN  IF len_sq * 10000 < One * One THEN Frac(1, 2)
             ELSE IF num < 0 THEN Frac(0, 1)
             ELSE IF num > len_sq THEN Frac(1, 1)
             ELSE Frac(num, len_sq)

\* the comparator of add_edge_point's sort_by: a is not Greater than b
EdgePointLE(a, b) ==
    IF a.edge # b.edge THEN a.edge < b.edge ELSE ~FracLess(b.t, a.t)

RECURSIVE InsertEdgePoint(_, _)
InsertEdgePoint(s, e) ==
    IF s = << >> THEN << e >>
    ELSE IF EdgePointLE(s[1], e) THEN << s[1] >> \o InsertEdgePoint(Tail(s), e)
    ELSE << e >> \o s

\* slice::sort_by is a stable sort
RECURSIVE SortEdgePoints(_)
SortEdgePoints(s) ==
    IF s = << >> THEN << >>
    ELSE InsertEdgePoint(SortEdgePoints(SubSeq(s, 1, Len(s) - 1)), s[Len(s)])

add_edge_point_same_id(cal, edge, x, y) ==
    LET id == cal.next_edge_point_id
        t == calculate_t_for_edge_static(edge, x, y, cal.corners)
    IN  [ cal EXCEPT !.edge_points = SortEdgePoints(Append(cal.edge_points,
                                        EdgePoint(id, edge, t, x, y))) ]

\* the new calibration; the returned id is cal.next_edge_point_id
add_edge_point(cal, edge, x, y) ==
    LET id == cal.next_edge_point_id
        t == calculate_t_for_edge_static(edge, x, y, cal.corners)
    IN  [ cal EXCEPT !.next_edge_point_id = id + 1,
                     !.edge_points = SortEdgePoints(Append(cal.edge_points,
                                        EdgePoint(id, edge, t, x, y))) ]

HasEdgePoint(cal, id) == \E i \in 1..Len(cal.edge_points) : cal.edge_points[i].id = id

remove_edge_point_clear(cal, id) ==
    IF HasEdgePoint(cal, id) THEN [ cal EXCEPT !.edge_points = << >> ] ELSE cal

remove_edge_point_reuse_id(cal, id) ==
    [ cal EXCEPT !.edge_points = SelectSeq(cal.edge_points, LAMBDA p : p.id # id),
                 !.next_edge_point_id = IF HasEdgePoint(cal, id) THEN id ELSE @ ]

\* the new calibration; the returned bool is HasEdgePoint(cal, id)
remove_edge_point(cal, id) ==
    [ cal EXCEPT !.edge_points = SelectSeq(cal.edge_points, LAMBDA p : p.id # id) ]

\* the bool remove_edge_point returns: self.edge_points.len() < len_before
remove_edge_point_ret(cal, id) ==
    Len(remove_edge_point(cal, id).edge_points) < Len(cal.edge_points)

\* index of the first edge point with this id (iter().find)
FirstIndexOf(cal, id) ==
    CHOOSE i \in 1..Len(cal.edge_points) :
        /\ cal.edge_points[i].id = id
        /\ \A j \in 1..(i - 1) : cal.edge_points[j].id # id

\* the new calibration; the returned bool is HasEdgePoint(cal, id)
update_edge_point(cal, id, x, y) ==
    IF ~HasEdgePoint(cal, id) THEN cal
    ELSE LET i == FirstIndexOf(cal, id)
             p == cal.edge_points[i]
             t == calculate_t_for_edge_static(p.edge, x, y, cal.corners)
         IN  [ cal EXCEPT !.edge_points[i] = [ p EXCEPT !.x = clamp(x), !.y = clamp(y), !.t = t ] ]

\* ----------------------------------------------------------------------
\* calibration.rs
\* ----------------------------------------------------------------------
update_calibration_point_any_corner(cal, id, x0, y0) ==
    [ cal EXCEPT !.corners[(id % 4) + 1] = Point(clamp(x0), clamp(y0)) ]

update_calibration_point(cal, id, x0, y0) ==
    LET x == clamp(x0)
        y == clamp(y0)
    IN  IF id \in 0..3 THEN [ cal EXCEPT !.corners[id + 1] = Point(x, y) ]
        ELSE update_edge_point(cal, id, x, y)

reset_calibration_keep_enabled(cal) == [ CalibrationDefault EXCEPT !.enabled = cal.enabled ]

reset_calibration(cal) == CalibrationDefault

\* set_calibration's loop over req.points
RECURSIVE ApplyPoints(_, _)
ApplyPoints(cal, points) ==
    IF points = << >> THEN cal
    ELSE ApplyPoints(update_calibration_point(cal, points[1].id, points[1].x, points[1].y),
                     Tail(points))

\* ----------------------------------------------------------------------
\* transform.rs: PerspectiveTransform::from_calibration
\* A transform is represented by the data its matrices and its LUT are
\* computed from: the source corners in pixels and, in mesh mode, the four
\* edge sequences handed to the mesh.
\* ----------------------------------------------------------------------
to_pixels(p, width, height) == [x |-> p.x * width, y |-> p.y * height]

get_source_corners(cal, width, height) ==
    [ i \in 1..4 |-> to_pixels(cal.corners[i], width, height) ]

RECURSIVE InsertByT(_, _)
InsertByT(s, e) ==
    IF s = << >> THEN << e >>
    ELSE IF ~FracLess(e.t, s[1].t) THEN << s[1] >> \o InsertByT(Tail(s), e)
    ELSE << e >> \o s

\* stable sort by t alone
RECURSIVE SortByT(_)
SortByT(s) ==
    IF s = << >> THEN << >>
    ELSE InsertByT(SortByT(SubSeq(s, 1, Len(s) - 1)), s[Len(s)])

get_edge_points(cal, edge) ==
    SortByT(SelectSeq(cal.edge_points, LAMBDA p : p.edge = edge))

build_edge_sequence(start, end, eps, width, height) ==
    LET seq == << [t |-> Frac(0, 1), pt |-> start] >>
               \o [ i \in 1..Len(eps) |->
                      [t |-> eps[i].t, pt |-> to_pixels(eps[i], width, height)] ]
               \o << [t |-> Frac(1, 1), pt |-> end] >>
        sorted == SortByT(seq)
    IN  [ i \in 1..Len(sorted) |-> sorted[i].pt ]

Reverse(s) == [ i \in 1..Len(s) |-> s[Len(s) + 1 - i] ]

\* the four edge sequences of SourceMesh::from_calibration: top, right,
\* bottom (reversed to run left to right), left (reversed to run top down)
MeshEdges(cal, width, height) ==
    LET c == get_source_corners(cal, width, height)
    IN  << build_edge_sequence(c[1], c[2], get_edge_points(cal, 0), width, height),
           build_edge_sequence(c[2], c[3], get_edge_points(cal, 1), width, height),
           Reverse(build_edge_sequence(c[3], c[4], get_edge_points(cal, 2), width, height)),
           Reverse(build_edge_sequence(c[4], c[1], get_edge_points(cal, 3), width, height)) >>

from_calibration(cal, width, height) ==
    IF cal.edge_points = << >>
    THEN [ src |-> get_source_corners(cal, width, height), mesh |-> << >> ]
    ELSE [ src |-> get_source_corners(cal, width, height),
           mesh |-> MeshEdges(cal, width, height) ]

\* ----------------------------------------------------------------------
\* transform.rs: SourceMesh (exact arithmetic on scaled integers)
\* ----------------------------------------------------------------------
PtScale(p, k) == [x |-> p.x * k, y |-> p.y * k]
PtAdd(p, q) == [x |-> p.x + q.x, y |-> p.y + q.y]
PtSub(p, q) == [x |-> p.x - q.x, y |-> p.y - q.y]

\* the common denominator of the points resample_edge returns for count
ResampleScale(count) == IF count > 1 THEN count - 1 ELSE 1

\* resample_edge: every returned point is multiplied by ResampleScale(count);
\* pos = i * (len - 1) / (count - 1), idx = floor(pos), frac = pos - idx
resample_edge(edge, count) ==
    IF Len(edge) = count
    THEN [ i \in 1..count |-> PtScale(edge[i], ResampleScale(count)) ]
    ELSE IF count = 0 THEN << >>
    ELSE IF count = 1 THEN << edge[(Len(edge) \div 2) + 1] >>
    ELSE [ i \in 1..count |->
             LET pos_n == (i - 1) * (Len(edge) - 1)
                 idx == pos_n \div (count - 1)
                 frac_n == pos_n - idx * (count - 1)
             IN  IF idx >= Len(edge) - 1
                 THEN PtScale(edge[Len(edge)], count - 1)
                 ELSE PtAdd(PtScale(edge[idx + 1], (count - 1) - frac_n),
                            PtScale(edge[idx + 2], frac_n)) ]

Max(a, b) == IF a > b THEN a ELSE b
Min(a, b) == IF a < b THEN a ELSE b

\* numerator and denominator of u = col / (cols - 1), or 1/2 when cols <= 1
GridParam(i, count) == IF count > 1 THEN Frac(i, count - 1) ELSE Frac(1, 2)

\* a grid point without the corner_blend subtraction
coons_point_no_blend(top, bottom, left, right, cols, rows, row, col) ==
    LET u == GridParam(col, cols)
        v == GridParam(row, rows)
        cs == ResampleScale(cols)
        rs == ResampleScale(rows)
        tb == PtAdd(PtScale(top[col + 1], v.d - v.n), PtScale(bottom[col + 1], v.n))
        lr == PtAdd(PtScale(left[row + 1], u.d - u.n), PtScale(right[row + 1], u.n))
    IN  [ pt |-> PtAdd(PtScale(tb, u.d * rs), PtScale(lr, v.d * cs)),
          scale |-> cs * rs * u.d * v.d ]

\* grid[row][col] = tb + lr - corner_blend, as the pair (numerator point,
\* denominator) with denominator cs * rs * u.d * v.d
coons_point(top, bottom, left, right, cols, rows, row, col) ==
    LET u == GridParam(col, cols)
        v == GridParam(row, rows)
        cs == ResampleScale(cols)
        rs == ResampleScale(rows)
        tb == PtAdd(PtScale(top[col + 1], v.d - v.n), PtScale(bottom[col + 1], v.n))
        lr == PtAdd(PtScale(left[row + 1], u.d - u.n), PtScale(right[row + 1], u.n))
        corner_blend ==
            PtAdd(PtAdd(PtScale(top[1], (u.d - u.n) * (v.d - v.n)),
                        PtScale(top[cols], u.n * (v.d - v.n))),
                  PtAdd(PtScale(bottom[1], (u.d - u.n) * v.n),
                        PtScale(bottom[cols], u.n * v.n)))
    IN  [ pt |-> PtSub(PtAdd(PtScale(tb, u.d * rs), PtScale(lr, v.d * cs)),
                       PtScale(corner_blend, rs)),
          scale |-> cs * rs * u.d * v.d ]

\* SourceMesh::from_calibration: the four resampled edges (each point times
\* ResampleScale of its count) and the grid of (numerator, denominator) points
SourceMesh_from_calibration(cal, width, height) ==
    LET edges == MeshEdges(cal, width, height)
        top_edge == edges[1]
        right_edge == edges[2]
        bottom_edge == edges[3]
        left_edge == edges[4]
        cols == Max(Len(top_edge), Len(bottom_edge))
        rows == Max(Len(left_edge), Len(right_edge))
        top == resample_edge(top_edge, cols)
        bottom == resample_edge(bottom_edge, cols)
        left == resample_edge(left_edge, rows)
        right == resample_edge(right_edge, rows)
    IN  [ cols |-> cols, rows |-> rows,
          top |-> top, bottom |-> bottom, left |-> left, right |-> right,
          grid |-> [ row \in 0..(rows - 1) |-> [ col \in 0..(cols - 1) |->
                       coons_point(top, bottom, left, right, cols, rows, row, col) ] ] ]

\* SourceMesh::sample at u = u.n / u.d, v = v.n / v.d: the source position in
\* tenths of a pixel as x / d, y / d
sample(m, u, v) ==
    IF m.cols < 2 \/ m.rows < 2
    THEN [ x |-> m.grid[0][0].pt.x, y |-> m.grid[0][0].pt.y, d |-> m.grid[0][0].scale ]
    ELSE LET col0 == Min((u.n * (m.cols - 1)) \div u.d, m.cols - 2)
             row0 == Min((v.n * (m.rows - 1)) \div v.d, m.rows - 2)
             cu == u.n * (m.cols - 1) - col0 * u.d
             cv == v.n * (m.rows - 1) - row0 * v.d
             p00 == m.grid[row0][col0]
             p10 == m.grid[row0][col0 + 1]
             p01 == m.grid[row0 + 1][col0]
             p11 == m.grid[row0 + 1][col0 + 1]
             s == PtAdd(PtAdd(PtScale(p00.pt, (u.d - cu) * (v.d - cv)),
                              PtScale(p10.pt, cu * (v.d - cv))),
                        PtAdd(PtScale(p01.pt, (u.d - cu) * cv),
                              PtScale(p11.pt, cu * cv)))
         IN  [ x |-> s.x, y |-> s.y, d |-> p00.scale * u.d * v.d ]

\* Calibration::get_dest_corners is (0,0), (W,0), (W,H), (0,H); the inverse
\* matrix compute_homography(dst, src) is the unique solution of the 8x8
\* system when it has one: the projective map of that rectangle onto the
\* source quadrilateral, here with every coefficient multiplied by D and the
\* corners q in tenths of the frame size.  D = 0 is the singular matrix.
HomographyD(q) ==
    (q[2].x - q[3].x) * (q[4].y - q[3].y) - (q[2].y - q[3].y) * (q[4].x - q[3].x)

compute_homography(q) ==
    LET dx1 == q[2].x - q[3].x
        dx2 == q[4].x - q[3].x
        dy1 == q[2].y - q[3].y
        dy2 == q[4].y - q[3].y
        sx == q[1].x - q[2].x + q[3].x - q[4].x
        sy == q[1].y - q[2].y + q[3].y - q[4].y
        D == HomographyD(q)
        g == sx * dy2 - dx2 * sy
        h == dx1 * sy - sx * dy1
    IN  [ singular |-> D = 0,
          a |-> (q[2].x - q[1].x) * D + g * q[2].x,
          b |-> (q[4].x - q[1].x) * D + h * q[4].x,
          c |-> q[1].x * D,
          d |-> (q[2].y - q[1].y) * D + g * q[2].y,
          e |-> (q[4].y - q[1].y) * D + h * q[4].y,
          f |-> q[1].y * D,
          g |-> g, h |-> h, i |-> D ]

\* apply_homography(inverse, dst_x, dst_y) in tenths of a pixel as x / d,
\* y / d; the singular matrix is [1,0,0,0,1,0,0,0,1] and w = 0 returns (x, y)
apply_homography(m, width, height, dst_x, dst_y) ==
    LET w == m.g * dst_x * height + m.h * dst_y * width + m.i * width * height
    IN  IF m.singular \/ w = 0
        THEN [ x |-> dst_x * One, y |-> dst_y * One, d |-> 1 ]
        ELSE [ x |-> (m.a * dst_x * height + m.b * dst_y * width
                        + m.c * width * height) * width,
               y |-> (m.d * dst_x * height + m.e * dst_y * width
                        + m.f * width * height) * height,
               d |-> w ]

\* lut[dst_y * width + dst_x] of PerspectiveTransform::from_calibration
lut(cal, width, height, dst_x, dst_y) ==
    IF cal.edge_points = << >>
    THEN apply_homography(compute_homography(cal.corners), width, height, dst_x, dst_y)
    ELSE sample(SourceMesh_from_calibration(cal, width, height),
                Frac(dst_x, Max(width - 1, 1)), Frac(dst_y, Max(height - 1, 1)))

\* the output size the corner entries are computed for
LutSize == [ width |-> 20, height |-> 16 ]

\* ----------------------------------------------------------------------
\* State
\* ----------------------------------------------------------------------
VARIABLES
    calibration,    \* config.calibration
    transform,      \* AppState.transform, the cached PerspectiveTransform
    issued,         \* history: the ids add_edge_point returned, in order, since the
                    \* calibration was last the default one (construction or reset)
    cfg_writer,     \* the holder of config's write lock, or "none"
    cfg_readers,    \* the holders of config's read lock
    h_pc,           \* per handler task: where it is in its request
    h_todo,         \* per handler task: the entries set_calibration's loop has yet to apply
    h_new,          \* per handler task: update_transform's local new_transform
    obs,            \* the calibration the last get_calibration read
    committed,      \* history: every calibration value config held at a moment
                    \* no writer was inside its write section
    requests,       \* number of mutating requests started
    p_pc,           \* the pipeline thread's position in run_pipeline
    dev_open,       \* run_pipeline's dev (the capture device handle) is alive
    stream_open,    \* run_pipeline's stream is alive
    snapshot,       \* the pipeline's local transform
    p_enabled,      \* the pipeline's local calibration_enabled
    camera_release_requested,
    camera_released,
    restart_requested,
    pending,        \* AppState.pending_video_settings
    config_video,   \* config.video (width, height, fps)
    file_video,     \* the video triple in the configuration file
    m_pc,           \* the restart monitor task's position
    process,        \* "running" or "exited"
    camera,         \* the VirtualCamera
    calls,          \* history: one record per write_frame_rgb call of SpecOut
    preview_clients_active,
    preview_frame,  \* the rectified preview slot: 0 when empty, else the number
                    \* of the frame whose JPEG it holds
    raw_preview_frame,  \* the raw preview slot, likewise
    stats,          \* AppState.stats, the PerformanceStats counters
    f_seq,          \* history: number of frames captured by stream.next()
    f_count,        \* run_pipeline's local frame_count
    f_flag,         \* history: what should_encode_preview() answered for the
                    \* frame in hand
    f_preview,      \* run_pipeline's local preview_encode_us
    video_resp,     \* history: the last POST /api/video/settings, its
                    \* request, what its I/O answered and its response
    camera_controls,    \* AppState.camera_controls: None, or Some(the cached
                    \* value of each control of the manager)
    device_ctrl,    \* the value the capture device holds for each control id
    config_controls,    \* config.camera.controls, per control: None or Some(value)
    ctrl_resp,      \* history: the last camera-control request and its response;
                    \* seq alternates with every request
    exit_status,    \* None while the process runs, then Some of what ended it
                    \* and the exit status it ended with
    color_call,     \* history: None, or Some of one YUYV conversion of a 2x1
                    \* frame: who converted, the settings, the bytes in and out
    slot_bytes,     \* the Vec<u8> of each preview slot, as the frame number its
                    \* first and second half come from (0: the empty Vec)
    slot_guard,     \* each preview slot's RwLock: writer held, readers holding
    pub,            \* the pipeline's position in update_preview /
                    \* update_raw_preview, the slot and the frame in hand
    rd,             \* every reader's position in get_preview / get_raw_preview
                    \* and the Vec it is cloning into
    guards,         \* the RwLocks of config, transform, camera_controls and
                    \* pending_video_settings: writer, readers, parked writers
    thread,         \* every thread's operation and the step it is about to take
    capture_format, \* run_pipeline's local format: None before the capture
                    \* format is negotiated, then Some of its width and height
    warped,         \* history: None, or Some of the last warp_rgb call: the
                    \* size of the transform and the size of the buffers
    f_hist,         \* history of the loop iterations: what the last one did, whether
                    \* the one before warned, the processed frames since an encode
    out_init,       \* history of the calls of initialize: how many, the device the
                    \* last one met, what it returned and the camera before it
    r_seen,         \* request_system_restart's local pending: None outside the
                    \* handler, Some of the record it cloned
    st_run          \* where record_frame_stats, reset and get_stats stand among
                    \* their atomic operations, and what get_stats has loaded

calVars == << calibration, transform, issued >>
lockVars == << cfg_writer, cfg_readers >>
handlerVars == << h_pc, h_todo, h_new, obs, committed, requests >>
pipeVars == << p_pc, dev_open, stream_open, snapshot, p_enabled >>
flagVars == << camera_release_requested, camera_released, restart_requested >>
videoVars == << pending, config_video, file_video >>
mainVars == << m_pc, process >>
outVars == << camera, calls >>
previewVars == << preview_clients_active, preview_frame, raw_preview_frame >>
frameVars == << stats, f_seq, f_count, f_flag, f_preview >>
respVars == << video_resp >>
ctrlVars == << camera_controls, device_ctrl, config_controls, ctrl_resp >>
exitVars == << exit_status >>
colorVars == << color_call >>
slotVars == << slot_bytes, slot_guard, pub, rd >>
lockingVars == << guards, thread >>
negoVars == << capture_format, warped >>
histVars == << f_hist >>
initVars == << out_init >>
seenVars == << r_seen >>
statVars == << st_run >>
lateVars == << histVars, initVars, seenVars, statVars >>
moreVars == << slotVars, lockingVars, negoVars, lateVars >>
extraVars == << previewVars, frameVars, respVars, ctrlVars, exitVars, colorVars, moreVars >>
sharedVars == << lockVars, handlerVars, pipeVars, flagVars, videoVars, mainVars >>
restVars == << sharedVars, outVars, extraVars >>
vars == << calVars, sharedVars, outVars, extraVars >>

\* ----------------------------------------------------------------------
\* Bounds and inputs of the shared-state specifications
\* ----------------------------------------------------------------------
\* at most this many mutating calibration requests are served
MaxRequests == 2
\* at most this many write_frame_rgb calls are made
MaxWrites == 3

\* the tasks serving HTTP requests
Handlers == { "h1", "h2" }

PointUpdate(id, p) == [id |-> id, x |-> p[1], y |-> p[2]]

\* the running settings: AppState.width, height, fps
RunningVideo == [width |-> Width, height |-> Height, fps |-> 30]

\* Option<u32>: None is the empty sequence, Some(v) the sequence of v alone
None == << >>
Some(v) == << v >>

\* video_settings.rs: PendingVideoSettings::default
PendingDefault ==
    [width |-> None, height |-> None, fps |-> None, needs_restart |-> FALSE]

\* server.rs: PerformanceStats::default, the counters
PerformanceStatsDefault ==
    [ frames_processed |-> 0, total_preview_encode_us |-> 0, preview_frames_encoded |-> 0 ]

\* output.rs: VirtualCamera::new
\* the controls query_controls enumerates, by id
ControlIds == { 1, 2 }

\* every control id the device knows; 9 is one query_controls skips
DeviceControlIds == ControlIds \cup { 9 }

\* the value of each control on the device when the program starts
DeviceDefaults == [id \in DeviceControlIds |-> 0]

\* server.rs: the preview slots preview_frame and raw_preview_frame
Slots == { "preview", "raw" }

\* Vec::new(), and the JPEG bytes of frame n, as the frame each half is from
EmptyVec == << 0, 0 >>
Jpeg(n) == << n, n >>

\* the readers of the slots and the slot each reads
Readers == { "get_preview", "get_raw_preview", "preview_stream" }
SlotOf(r) == IF r = "get_preview" THEN "preview" ELSE "raw"

\* server.rs: the RwLocks of AppState that guard shared state
LockNames == { "config", "transform", "camera_controls", "pending" }

\* two HTTP handler threads of the runtime and the pipeline thread
Threads == { "h1", "h2", "pipeline" }

\* no loop iteration yet
HistoryNone ==
    [ seq |-> 0, decoded |-> FALSE, warned |-> FALSE, out |-> << >>, encoded |-> FALSE,
      enabled |-> TRUE, prev_warned |-> FALSE, gap |-> 0 - 1, since_enc |-> 0 - 1 ]

VirtualCameraNew ==
    [ initialized |-> FALSE, file |-> "closed", format |-> "Yuyv",
      frame_count |-> 0, dropped_count |-> 0 ]

\* nobody inside record_frame_stats, reset or get_stats
StatsIdle ==
    [ rec |-> "idle", us |-> 0, rst |-> "idle", resets |-> 0, rd |-> "idle",
      frames |-> 0, preview_frames |-> 0 ]

\* no call of initialize yet
InitializeNone ==
    [ n |-> 0, exists |-> FALSE, accepts |-> {}, raw_ok |-> FALSE, ret |-> "none",
      before |-> VirtualCameraNew ]

Init ==
    /\ calibration = CalibrationDefault
    /\ transform = from_calibration(CalibrationDefault, Width, Height)
    /\ issued = << >>
    /\ cfg_writer = "none"
    /\ cfg_readers = {}
    /\ h_pc = [h \in Handlers |-> "idle"]
    /\ h_todo = [h \in Handlers |-> << >>]
    /\ h_new = [h \in Handlers |-> from_calibration(CalibrationDefault, Width, Height)]
    /\ obs = CalibrationDefault
    /\ committed = { CalibrationDefault }
    /\ requests = 0
    /\ p_pc = "start"
    /\ dev_open = FALSE
    /\ stream_open = FALSE
    /\ snapshot = from_calibration(CalibrationDefault, Width, Height)
    /\ p_enabled = TRUE
    /\ camera_release_requested = FALSE
    /\ camera_released = FALSE
    /\ restart_requested = FALSE
    /\ pending = PendingDefault
    /\ config_video = RunningVideo
    /\ file_video = RunningVideo
    /\ m_pc = "sleep"
    /\ process = "running"
    /\ camera = VirtualCameraNew
    /\ calls = << >>
    /\ preview_clients_active = FALSE
    /\ preview_frame = 0
    /\ raw_preview_frame = 0
    /\ stats = PerformanceStatsDefault
    /\ f_seq = 0
    /\ f_count = 0
    /\ f_flag = FALSE
    /\ f_preview = None
    /\ video_resp = [ req |-> RunningVideo, caps_ok |-> TRUE, saved_config |-> TRUE,
                      saved_camera |-> TRUE, status |-> "none" ]
    /\ camera_controls = None
    /\ device_ctrl = DeviceDefaults
    /\ config_controls = [id \in ControlIds |-> None]
    /\ ctrl_resp = [ op |-> "none", id |-> 0, value |-> 0, status |-> "none", seq |-> 0 ]
    /\ exit_status = None
    /\ color_call = None
    /\ slot_bytes = [k \in Slots |-> EmptyVec]
    /\ slot_guard = [k \in Slots |-> [writer |-> FALSE, readers |-> {}]]
    /\ pub = [pc |-> "idle", k |-> "preview", seq |-> 0]
    /\ rd = [r \in Readers |-> [pc |-> "idle", copy |-> EmptyVec]]
    /\ guards = [l \in LockNames |-> [writer |-> "none", readers |-> {}, waiting |-> {}]]
    /\ thread = [t \in Threads |-> [op |-> "none", pc |-> 0]]
    /\ capture_format = None
    /\ warped = None
    /\ f_hist = HistoryNone
    /\ out_init = InitializeNone
    /\ r_seen = None
    /\ st_run = StatsIdle

\* ----------------------------------------------------------------------
\* SpecCal: the calibration handlers of server.rs, one request at a time
\* ----------------------------------------------------------------------
\* set_calibration bodies: lists of {id, x, y}
BulkRequests ==
    { << PointUpdate(0, << 3, 1 >>), PointUpdate(1, << 15, -5 >>) >>,
      << PointUpdate(100, << 15, -5 >>), PointUpdate(999, << 3, 1 >>) >> }

\* the status update_point answers with: StatusCode::OK at the end of the
\* handler, whatever the id
update_point_status(cal, id) == "OK"

\* the status delete_point answers with
delete_point_status(cal, id) == IF HasEdgePoint(cal, id) THEN "OK" ELSE "NOT_FOUND"

\* POST /api/calibration/point/:id
update_point(id, p) ==
    /\ calibration' = update_calibration_point(calibration, id, p[1], p[2])
    /\ transform' = from_calibration(calibration', Width, Height)
    /\ UNCHANGED << issued, restVars >>

\* POST /api/calibration
set_calibration(points) ==
    /\ calibration' = ApplyPoints(calibration, points)
    /\ transform' = from_calibration(calibration', Width, Height)
    /\ UNCHANGED << issued, restVars >>

\* POST /api/calibration/point/add
add_point(edge, p) ==
    /\ calibration.next_edge_point_id < FirstEdgePointId + MaxAdds
    /\ calibration' = add_edge_point(calibration, edge, p[1], p[2])
    /\ transform' = from_calibration(calibration', Width, Height)
    /\ issued' = Append(issued, calibration.next_edge_point_id)
    /\ UNCHANGED restVars

\* DELETE /api/calibration/point/:id
delete_point(id) ==
    /\ calibration' = remove_edge_point(calibration, id)
    /\ transform' = IF HasEdgePoint(calibration, id)
                    THEN from_calibration(calibration', Width, Height)
                    ELSE transform
    /\ UNCHANGED << issued, restVars >>

\* POST /api/calibration/reset
reset_calibration_handler ==
    /\ calibration' = reset_calibration(calibration)
    /\ transform' = from_calibration(calibration', Width, Height)
    /\ issued' = << >>
    /\ UNCHANGED restVars

\* POST /api/calibration/enable, /api/calibration/disable
enable_calibration ==
    /\ calibration' = [ calibration EXCEPT !.enabled = TRUE ]
    /\ UNCHANGED << transform, issued, restVars >>

disable_calibration ==
    /\ calibration' = [ calibration EXCEPT !.enabled = FALSE ]
    /\ UNCHANGED << transform, issued, restVars >>

CalUpdatePoint == \E id \in InIds, p \in InPoints : update_point(id, p)
CalSetCalibration == \E points \in BulkRequests : set_calibration(points)
CalAddPoint == \E edge \in InEdges, p \in InPoints : add_point(edge, p)
CalDeletePoint == \E id \in InIds : delete_point(id)

CalNext ==
    \/ CalUpdatePoint
    \/ CalSetCalibration
    \/ CalAddPoint
    \/ CalDeletePoint
    \/ reset_calibration_handler
    \/ enable_calibration
    \/ disable_calibration

SpecCal == Init /\ [][CalNext]_vars

\* ----------------------------------------------------------------------
\* The shared AppState: config behind a read-write lock, the cached
\* transform, handler tasks running concurrently with the pipeline thread
\* ----------------------------------------------------------------------
config_read_unlocked == TRUE

\* RwLock::read on config succeeds when no writer holds the lock
CanReadConfig == cfg_writer = "none"

\* RwLock::write on config succeeds when nobody holds the lock
CanWriteConfig == cfg_writer = "none" /\ cfg_readers = {}

StoreTransform_in_place(old, new) == [ src |-> new.src, mesh |-> old.mesh ]

\* *self.transform.write() = new_transform: the cached value is replaced whole
StoreTransform(old, new) == new

\* the body of the bulk request served concurrently: corners 0 and 1
SharedBulk == << PointUpdate(0, << 3, 1 >>), PointUpdate(1, << 15, -5 >>) >>
\* the other requests served concurrently
SharedUpdate == PointUpdate(2, << 3, 1 >>)
SharedAdd == [edge |-> 0, x |-> 3, y |-> 1]
SharedDelete == FirstEdgePointId

CanStart(h) ==
    /\ process = "running"
    /\ h_pc[h] = "idle"
    /\ requests < MaxRequests

\* a single-statement write section: config.write(), one change, guard dropped
WriteSection(h, cal, then) ==
    /\ CanWriteConfig
    /\ calibration' = cal
    /\ committed' = committed \cup { cal }
    /\ requests' = requests + 1
    /\ h_pc' = [ h_pc EXCEPT ![h] = then ]
    /\ UNCHANGED << transform, lockVars, h_todo, h_new, obs >>
    /\ UNCHANGED << pipeVars, flagVars, videoVars, mainVars, outVars, extraVars >>

\* set_calibration: let mut config = state.config.write()
h_set_calibration_lock(h) ==
    /\ CanStart(h)
    /\ CanWriteConfig
    /\ cfg_writer' = h
    /\ h_todo' = [ h_todo EXCEPT ![h] = SharedBulk ]
    /\ h_pc' = [ h_pc EXCEPT ![h] = "loop" ]
    /\ requests' = requests + 1
    /\ UNCHANGED << calVars, cfg_readers, h_new, obs, committed >>
    /\ UNCHANGED << pipeVars, flagVars, videoVars, mainVars, outVars, extraVars >>

\* set_calibration: one iteration of for point in req.points
h_set_calibration_loop(h) ==
    /\ process = "running"
    /\ h_pc[h] = "loop"
    /\ h_todo[h] # << >>
    /\ calibration' = update_calibration_point(calibration, Head(h_todo[h]).id,
                                               Head(h_todo[h]).x, Head(h_todo[h]).y)
    /\ h_todo' = [ h_todo EXCEPT ![h] = Tail(h_todo[h]) ]
    /\ UNCHANGED << transform, issued, lockVars, h_pc, h_new, obs, committed, requests >>
    /\ UNCHANGED << pipeVars, flagVars, videoVars, mainVars, outVars, extraVars >>

\* set_calibration: the write guard is dropped at the end of the block
h_set_calibration_unlock(h) ==
    /\ process = "running"
    /\ h_pc[h] = "loop"
    /\ h_todo[h] = << >>
    /\ cfg_writer' = "none"
    /\ committed' = committed \cup { calibration }
    /\ h_pc' = [ h_pc EXCEPT ![h] = "update_transform" ]
    /\ UNCHANGED << calVars, cfg_readers, h_todo, h_new, obs, requests >>
    /\ UNCHANGED << pipeVars, flagVars, videoVars, mainVars, outVars, extraVars >>

h_update_point(h) ==
    /\ CanStart(h)
    /\ WriteSection(h, update_calibration_point(calibration, SharedUpdate.id,
                                                SharedUpdate.x, SharedUpdate.y),
                    "update_transform")
    /\ UNCHANGED issued

h_add_point(h) ==
    /\ CanStart(h)
    /\ calibration.next_edge_point_id < FirstEdgePointId + MaxAdds
    /\ WriteSection(h, add_edge_point(calibration, SharedAdd.edge, SharedAdd.x, SharedAdd.y),
                    "update_transform")
    /\ issued' = Append(issued, calibration.next_edge_point_id)

h_delete_point(h) ==
    /\ CanStart(h)
    /\ WriteSection(h, remove_edge_point(calibration, SharedDelete),
                    IF HasEdgePoint(calibration, SharedDelete)
                    THEN "update_transform" ELSE "idle")
    /\ UNCHANGED issued

h_reset_calibration(h) ==
    /\ CanStart(h)
    /\ WriteSection(h, reset_calibration(calibration), "update_transform")
    /\ issued' = << >>

config_guard_dropped_early(readers, h) == readers

\* update_transform: `let config = self.config.read()` lives to the end of
\* the function, so h is a reader of config until the store is done
config_guard_held(readers, h) == readers \cup { h }

\* update_transform: config.read() and from_calibration
update_transform_read(h) ==
    /\ process = "running"
    /\ h_pc[h] = "update_transform"
    /\ CanReadConfig
    /\ cfg_readers' = config_guard_held(cfg_readers, h)
    /\ h_new' = [ h_new EXCEPT ![h] = from_calibration(calibration, Width, Height) ]
    /\ h_pc' = [ h_pc EXCEPT ![h] = "store" ]
    /\ UNCHANGED << calVars, cfg_writer, h_todo, obs, committed, requests >>
    /\ UNCHANGED << pipeVars, flagVars, videoVars, mainVars, outVars, extraVars >>

\* update_transform: the store into the cache; the read guard on config is
\* dropped when the function returns
update_transform_store(h) ==
    /\ process = "running"
    /\ h_pc[h] = "store"
    /\ transform' = StoreTransform(transform, h_new[h])
    /\ cfg_readers' = cfg_readers \ { h }
    /\ h_pc' = [ h_pc EXCEPT ![h] = "idle" ]
    /\ UNCHANGED << calibration, issued, cfg_writer, h_todo, h_new, obs, committed, requests >>
    /\ UNCHANGED << pipeVars, flagVars, videoVars, mainVars, outVars, extraVars >>

\* GET /api/calibration
get_calibration(h) ==
    /\ process = "running"
    /\ h_pc[h] = "idle"
    /\ CanReadConfig
    /\ obs' = calibration
    /\ UNCHANGED << calVars, lockVars, h_pc, h_todo, h_new, committed, requests >>
    /\ UNCHANGED << pipeVars, flagVars, videoVars, mainVars, outVars, extraVars >>

\* ----------------------------------------------------------------------
\* capture.rs: run_pipeline, on its own thread
\* ----------------------------------------------------------------------
\* Device::with_path
open_device ==
    /\ process = "running"
    /\ p_pc = "start"
    /\ \E ok \in BOOLEAN :
          /\ dev_open' = ok
          /\ p_pc' = IF ok THEN "opened" ELSE "failed"
    /\ UNCHANGED << stream_open, snapshot, p_enabled >>
    /\ UNCHANGED << calVars, lockVars, handlerVars, flagVars, videoVars, mainVars, outVars, extraVars >>

\* Stream::with_buffers(&dev, ..); an error return drops dev
create_stream ==
    /\ process = "running"
    /\ p_pc = "opened"
    /\ \E ok \in BOOLEAN :
          /\ stream_open' = ok
          /\ dev_open' = ok
          /\ p_pc' = IF ok THEN "top" ELSE "failed"
    /\ UNCHANGED << snapshot, p_enabled >>
    /\ UNCHANGED << calVars, lockVars, handlerVars, flagVars, videoVars, mainVars, outVars, extraVars >>

\* the top of the loop: if state.is_camera_release_requested()
loop_top ==
    /\ process = "running"
    /\ p_pc = "top"
    /\ p_pc' = IF camera_release_requested THEN "release" ELSE "next"
    /\ UNCHANGED << dev_open, stream_open, snapshot, p_enabled >>
    /\ UNCHANGED << calVars, lockVars, handlerVars, flagVars, videoVars, mainVars, outVars, extraVars >>

\* drop(stream); dev stays in scope
drop_stream ==
    /\ process = "running"
    /\ p_pc = "release"
    /\ stream_open' = FALSE
    /\ p_pc' = "dropped"
    /\ UNCHANGED << dev_open, snapshot, p_enabled >>
    /\ UNCHANGED << calVars, lockVars, handlerVars, flagVars, videoVars, mainVars, outVars, extraVars >>

\* state.set_camera_released(true)
set_camera_released ==
    /\ process = "running"
    /\ p_pc = "dropped"
    /\ camera_released' = TRUE
    /\ p_pc' = "waiting"
    /\ UNCHANGED << dev_open, stream_open, snapshot, p_enabled >>
    /\ UNCHANGED << camera_release_requested, restart_requested >>
    /\ UNCHANGED << calVars, lockVars, handlerVars, videoVars, mainVars, outVars, extraVars >>

\* the inner loop: sleep, then return Ok(()) once is_restart_requested();
\* the return drops dev
wait_for_restart ==
    /\ process = "running"
    /\ p_pc = "waiting"
    /\ restart_requested
    /\ p_pc' = "returned_ok"
    /\ dev_open' = FALSE
    /\ UNCHANGED << stream_open, snapshot, p_enabled >>
    /\ UNCHANGED << calVars, lockVars, handlerVars, flagVars, videoVars, mainVars, outVars, extraVars >>

\* stream.next(); an error returns from run_pipeline, dropping stream and dev
stream_next ==
    /\ process = "running"
    /\ p_pc = "next"
    /\ \E ok \in BOOLEAN :
          /\ p_pc' = IF ok THEN "frame" ELSE "failed"
          /\ stream_open' = ok
          /\ dev_open' = ok
    /\ UNCHANGED << snapshot, p_enabled >>
    /\ UNCHANGED << calVars, lockVars, handlerVars, flagVars, videoVars, mainVars, outVars, extraVars >>

\* let transform = state.get_transform()
get_transform ==
    /\ process = "running"
    /\ p_pc = "frame"
    /\ snapshot' = transform
    /\ p_pc' = "enabled"
    /\ UNCHANGED << dev_open, stream_open, p_enabled >>
    /\ UNCHANGED << calVars, lockVars, handlerVars, flagVars, videoVars, mainVars, outVars, extraVars >>

\* calibration_enabled = config.read().calibration.enabled; the rest of the
\* iteration (decode, warp, output, preview, stats) touches no shared state
\* modelled here
read_calibration_enabled ==
    /\ process = "running"
    /\ p_pc = "enabled"
    /\ CanReadConfig
    /\ p_enabled' = calibration.enabled
    /\ p_pc' = "top"
    /\ UNCHANGED << dev_open, stream_open, snapshot >>
    /\ UNCHANGED << calVars, lockVars, handlerVars, flagVars, videoVars, mainVars, outVars, extraVars >>

\* ----------------------------------------------------------------------
\* server.rs: video settings and the restart request; main.rs: the monitor
\* ----------------------------------------------------------------------
\* the settings a request names: the running ones, a supported change, a
\* resolution the camera does not list, a framerate 1280x720 does not list,
\* and 29 fps, which 640x480 lists as 29.97
InVideo ==
    { RunningVideo,
      [width |-> 1280, height |-> 720, fps |-> 30],
      [width |-> 1920, height |-> 1080, fps |-> 30],
      [width |-> 1280, height |-> 720, fps |-> 60],
      [width |-> 640, height |-> 480, fps |-> 29] }

\* CameraCapabilities.resolutions of the camera, FrameRate.fps in hundredths
CameraResolutions ==
    { [width |-> 640, height |-> 480, framerates |-> {3000, 2997}],
      [width |-> 1280, height |-> 720, framerates |-> {3000}] }

\* fr.fps as u32
fps_as_u32(fps) == fps \div 100

resolution_valid(v) ==
    \E r \in CameraResolutions : r.width = v.width /\ r.height = v.height

fps_valid(v) ==
    \E r \in CameraResolutions :
        /\ r.width = v.width /\ r.height = v.height
        /\ \E fr \in r.framerates : fps_as_u32(fr) = v.fps

PendingFor_no_restart(v) ==
    [ width |-> IF v.width # RunningVideo.width THEN Some(v.width) ELSE None,
      height |-> IF v.height # RunningVideo.height THEN Some(v.height) ELSE None,
      fps |-> IF v.fps # RunningVideo.fps THEN Some(v.fps) ELSE None,
      needs_restart |-> FALSE ]

\* PendingVideoSettings after set_pending_video_settings(Some(w), Some(h), Some(f))
\* with a change in at least one field
PendingFor(v) ==
    [ width |-> IF v.width # RunningVideo.width THEN Some(v.width) ELSE None,
      height |-> IF v.height # RunningVideo.height THEN Some(v.height) ELSE None,
      fps |-> IF v.fps # RunningVideo.fps THEN Some(v.fps) ELSE None,
      needs_restart |-> TRUE ]

VideoStatus_unvalidated(v, caps_ok, saved_camera) ==
    IF v = RunningVideo THEN "AlreadyCurrent"
    ELSE IF saved_camera THEN "RestartRequired"
    ELSE "SaveFailed"

\* the response of POST /api/video/settings
VideoStatus(v, caps_ok, saved_camera) ==
    IF caps_ok /\ ~resolution_valid(v) THEN "InvalidResolution"
    ELSE IF caps_ok /\ ~fps_valid(v) THEN "InvalidFramerate"
    ELSE IF v = RunningVideo THEN "AlreadyCurrent"
    ELSE IF saved_camera THEN "RestartRequired"
    ELSE "SaveFailed"

\* POST /api/video/settings. caps_ok: get_camera_capabilities() answered Ok;
\* saved_config: the Config::save inside set_pending_video_settings wrote the
\* file; saved_camera: save_video_settings_to_config wrote the file
set_video_settings(v, caps_ok, saved_config, saved_camera) ==
    /\ process = "running"
    /\ LET status == VideoStatus(v, caps_ok, saved_camera) IN
       /\ video_resp' = [ req |-> v, caps_ok |-> caps_ok, saved_config |-> saved_config,
                          saved_camera |-> saved_camera, status |-> status ]
       /\ IF status \in {"InvalidResolution", "InvalidFramerate"}
          THEN UNCHANGED << pending, config_video, file_video >>
          ELSE IF status = "AlreadyCurrent"
          THEN /\ pending' = PendingDefault
               /\ UNCHANGED << config_video, file_video >>
          ELSE /\ CanWriteConfig
               /\ pending' = PendingFor(v)
               /\ config_video' = v
               /\ file_video' = IF saved_config THEN v ELSE file_video
    /\ UNCHANGED << calVars, lockVars, handlerVars, pipeVars, flagVars, mainVars, outVars,
                    previewVars, frameVars, ctrlVars, exitVars, colorVars, moreVars >>

has_pending == pending.width # None \/ pending.height # None \/ pending.fps # None

\* POST /api/system/restart: request_restart() when there are pending settings
request_system_restart ==
    /\ process = "running"
    /\ has_pending
    /\ restart_requested' = TRUE
    /\ UNCHANGED << camera_release_requested, camera_released >>
    /\ UNCHANGED << calVars, lockVars, handlerVars, pipeVars, videoVars, mainVars, outVars, extraVars >>

\* the setter of camera_release_requested
request_camera_release ==
    /\ process = "running"
    /\ camera_release_requested' = TRUE
    /\ UNCHANGED << camera_released, restart_requested >>
    /\ UNCHANGED << calVars, lockVars, handlerVars, pipeVars, videoVars, mainVars, outVars, extraVars >>

\* restart_monitor: a poll that finds restart_requested set
restart_monitor_poll ==
    /\ process = "running"
    /\ m_pc = "sleep"
    /\ restart_requested
    /\ m_pc' = "triggering"
    /\ UNCHANGED process
    /\ UNCHANGED << calVars, lockVars, handlerVars, pipeVars, flagVars, videoVars, outVars, extraVars >>

\* std::process::exit(0) of the restart monitor
ProcessExit0(cause) == Some([cause |-> cause, code |-> 0])

\* main returning Ok(()) after select!, whichever branch finished and
\* whatever it returned
MainReturnsOk(cause) == Some([cause |-> cause, code |-> 0])

\* restart_monitor: systemctl start hypercalibrate-restart.service, then
\* std::process::exit(0) whether the spawn succeeded or not
restart_monitor_trigger ==
    /\ process = "running"
    /\ m_pc = "triggering"
    /\ m_pc' = "triggered"
    /\ process' = "exited"
    /\ exit_status' = ProcessExit0("restart")
    /\ UNCHANGED << calVars, lockVars, handlerVars, pipeVars, flagVars, videoVars, outVars,
                    previewVars, frameVars, respVars, ctrlVars, colorVars, moreVars >>

\* main: select! sees the pipeline task finish and main returns
main_select ==
    /\ process = "running"
    /\ p_pc \in { "returned_ok", "failed" }
    /\ process' = "exited"
    /\ exit_status' = MainReturnsOk(IF p_pc = "failed" THEN "pipeline error" ELSE "pipeline ok")
    /\ UNCHANGED m_pc
    /\ UNCHANGED << calVars, lockVars, handlerVars, pipeVars, flagVars, videoVars, outVars,
                    previewVars, frameVars, respVars, ctrlVars, colorVars, moreVars >>

\* main: select! sees the server task finish with Err (the listener could
\* not bind, or serving failed) and main returns
main_select_server ==
    /\ process = "running"
    /\ process' = "exited"
    /\ exit_status' = MainReturnsOk("server error")
    /\ UNCHANGED m_pc
    /\ UNCHANGED << calVars, lockVars, handlerVars, pipeVars, flagVars, videoVars, outVars,
                    previewVars, frameVars, respVars, ctrlVars, colorVars, moreVars >>

\* ----------------------------------------------------------------------
\* SpecShared: handler tasks and the pipeline's frame loop
\* ----------------------------------------------------------------------
SharedHandlers ==
    \E h \in Handlers :
        \/ h_set_calibration_lock(h)
        \/ h_set_calibration_loop(h)
        \/ h_set_calibration_unlock(h)
        \/ h_update_point(h)
        \/ h_add_point(h)
        \/ h_delete_point(h)
        \/ h_reset_calibration(h)
        \/ update_transform_read(h)
        \/ update_transform_store(h)
        \/ get_calibration(h)

SharedNext ==
    \/ SharedHandlers
    \/ open_device
    \/ create_stream
    \/ loop_top
    \/ stream_next
    \/ get_transform
    \/ read_calibration_enabled
    \/ main_select

SpecShared == Init /\ [][SharedNext]_vars

\* ----------------------------------------------------------------------
\* SpecRestart: the pipeline with the camera release and restart paths
\* ----------------------------------------------------------------------
SetVideoSettings ==
    \E v \in InVideo, caps_ok \in BOOLEAN, saved_config \in BOOLEAN, saved_camera \in BOOLEAN :
        set_video_settings(v, caps_ok, saved_config, saved_camera)

RestartNext ==
    \/ open_device
    \/ create_stream
    \/ loop_top
    \/ drop_stream
    \/ set_camera_released
    \/ wait_for_restart
    \/ stream_next
    \/ get_transform
    \/ read_calibration_enabled
    \/ SetVideoSettings
    \/ request_system_restart
    \/ request_camera_release
    \/ restart_monitor_poll
    \/ restart_monitor_trigger
    \/ main_select
    \/ main_select_server

SpecRestart == Init /\ [][RestartNext]_vars

\* ----------------------------------------------------------------------
\* output.rs: VirtualCamera, the writer to the loopback device
\* ----------------------------------------------------------------------
\* what the loopback device does with initialize's attempts: the first
\* format it accepts, "raw" when it rejects all three but the raw open
\* succeeds, "fail" when the raw open fails too (or the device is absent)
InitOutcomes == { "Yuyv", "Rgb24", "Bgr24", "raw", "fail" }

\* the answers of the device to the successive write(2) calls of one
\* write_all: "all" takes the whole rest, "part" a part of it, the others are
\* errno values; every script holds an answer that ends write_all, and a
\* device whose consumer never reads answers EAGAIN however often it is asked
DeviceScripts ==
    { << "all" >>, << "EAGAIN", "EAGAIN" >>, << "part", "EAGAIN" >>, << "EINTR", "all" >>,
      << "EINTR", "EAGAIN" >>, << "EINVAL" >>, << "EIO" >> }

\* lengths of the rgb_data handed to write_frame_rgb
InLens == { Width * Height * 3, Width * Height * 2 }

initialize(cam, outcome) ==
    IF cam.initialized THEN [camera |-> cam, ret |-> "Ok"]
    ELSE IF outcome \in { "Yuyv", "Rgb24", "Bgr24" }
    THEN [camera |-> [ cam EXCEPT !.format = outcome, !.file = "open", !.initialized = TRUE ],
          ret |-> "Ok"]
    ELSE IF outcome = "raw"
    THEN [camera |-> [ cam EXCEPT !.file = "open", !.initialized = TRUE ], ret |-> "Ok"]
    ELSE [camera |-> cam, ret |-> "Err"]

\* Write::write_all on the file: a partial write and EINTR go round the loop
\* again, any other error ends it; n counts the write(2) calls made before
RECURSIVE write_all(_, _)
write_all(script, n) ==
    IF Head(script) = "all" THEN [res |-> "Ok", attempts |-> n + 1]
    ELSE IF Head(script) \in { "part", "EINTR" } THEN write_all(Tail(script), n + 1)
    ELSE [res |-> Head(script), attempts |-> n + 1]

record_dropped_frame_uncounted(cam) == cam

record_dropped_frame(cam) == [ cam EXCEPT !.dropped_count = @ + 1 ]

\* EWOULDBLOCK is EAGAIN on Linux
write_raw(cam, script) ==
    IF cam.file = "open"
    THEN LET w == write_all(script, 0)
         IN  IF w.res = "Ok" THEN [camera |-> cam, ret |-> "Ok", attempts |-> w.attempts]
             ELSE IF w.res = "EAGAIN"
             THEN [camera |-> record_dropped_frame(cam), ret |-> "Ok", attempts |-> w.attempts]
             ELSE [camera |-> cam, ret |-> "Err", attempts |-> w.attempts]
    ELSE [camera |-> cam, ret |-> "Err", attempts |-> 0]

\* the conversions to the target format change the bytes written, not the
\* course of the call
write_frame_rgb(cam, len, outcome, script) ==
    LET i == initialize(cam, outcome)
    IN  IF i.ret = "Err" THEN [camera |-> cam, ret |-> "Err", attempts |-> 0]
        ELSE IF len # Width * Height * 3
        THEN [camera |-> i.camera, ret |-> "Err", attempts |-> 0]
        ELSE LET w == write_raw(i.camera, script)
             IN  IF w.ret = "Err" THEN w
                 ELSE [ w EXCEPT !.camera.frame_count = @ + 1 ]

\* frame sizes (width, height) of a VirtualCamera; <<3, 2>> and <<1, 1>> have
\* an odd width
InFrameSizes == { << 1, 1 >>, << 2, 2 >>, << 3, 2 >>, << 640, 480 >> }

\* the length of rgb_to_bgr's result: three bytes per whole chunk of three
rgb_to_bgr_len(len) == (len \div 3) * 3

\* the length of rgb_to_yuyv's result: every row pushes four bytes for each
\* x of (0..width).step_by(2)
rgb_to_yuyv_len(width, height) == height * ((width + 1) \div 2) * 4

\* the length of the data write_frame_rgb hands to write_raw for an
\* initialized camera of this format and size, None when it returns the
\* size-mismatch error before the match
write_frame_rgb_len(format, width, height, len) ==
    IF len # width * height * 3 THEN None
    ELSE CASE format = "Rgb24" -> Some(len)
           [] format = "Bgr24" -> Some(rgb_to_bgr_len(len))
           [] format = "Yuyv" -> Some(rgb_to_yuyv_len(width, height))

\* ----------------------------------------------------------------------
\* SpecOut: the pipeline thread's calls on its VirtualCamera
\* ----------------------------------------------------------------------
\* output.initialize() before the capture loop
OutInitialize ==
    /\ ~camera.initialized
    /\ \E outcome \in InitOutcomes : camera' = initialize(camera, outcome).camera
    /\ camera' # camera
    /\ UNCHANGED << calls, calVars, sharedVars, extraVars >>

\* output.write_frame_rgb(output_rgb)
OutWriteFrame ==
    /\ Len(calls) < MaxWrites
    /\ \E len \in InLens, outcome \in InitOutcomes, script \in DeviceScripts :
          /\ camera.initialized => outcome = "fail"
          /\ LET r == write_frame_rgb(camera, len, outcome, script)
             IN  /\ camera' = r.camera
                 /\ calls' = Append(calls, [ len |-> len, script |-> script, ret |-> r.ret,
                                             attempts |-> r.attempts ])
    /\ UNCHANGED << calVars, sharedVars, extraVars >>

OutNext ==
    \/ OutInitialize
    \/ OutWriteFrame

SpecOut == Init /\ [][OutNext]_vars

\* ----------------------------------------------------------------------
\* capture.rs: one iteration of run_pipeline's loop in full, with the
\* loopback output, the preview slots and the statistics
\* ----------------------------------------------------------------------
\* at most this many frames are taken through the loop body
MaxFrames == 3

\* the device's answers to the loopback write of a frame
FrameScripts == { << "all" >>, << "EAGAIN", "EAGAIN" >>, << "EINVAL" >>, << "EIO" >> }

\* elapsed().as_micros() of a preview encode
InMicros == { 5 }

\* what the loopback device does with the pipeline's initialize
FrameInitOutcomes == { "Yuyv", "raw", "fail" }

should_encode_preview_always == TRUE

\* AppState::should_encode_preview
should_encode_preview == preview_clients_active

\* VirtualCamera::new and output.initialize(); an error returns from
\* run_pipeline, dropping dev
init_output ==
    /\ process = "running"
    /\ p_pc = "opened"
    /\ \E outcome \in FrameInitOutcomes :
          LET r == initialize(VirtualCameraNew, outcome)
          IN  /\ camera' = r.camera
              /\ p_pc' = IF r.ret = "Ok" THEN "output" ELSE "failed"
              /\ dev_open' = (r.ret = "Ok")
    /\ UNCHANGED << stream_open, snapshot, p_enabled, calls >>
    /\ UNCHANGED << calVars, lockVars, handlerVars, flagVars, videoVars, mainVars, extraVars >>

\* Stream::with_buffers(&dev, ..) after the output is initialized
frame_create_stream ==
    /\ process = "running"
    /\ p_pc = "output"
    /\ \E ok \in BOOLEAN :
          /\ stream_open' = ok
          /\ dev_open' = ok
          /\ p_pc' = IF ok THEN "top" ELSE "failed"
    /\ UNCHANGED << snapshot, p_enabled >>
    /\ UNCHANGED << calVars, lockVars, handlerVars, flagVars, videoVars, mainVars, outVars, extraVars >>

\* calibration_enabled = config.read().calibration.enabled, for the frame
\* stream.next() delivered
frame_read_enabled ==
    /\ process = "running"
    /\ p_pc = "enabled"
    /\ f_seq < MaxFrames
    /\ CanReadConfig
    /\ p_enabled' = calibration.enabled
    /\ f_seq' = f_seq + 1
    /\ p_pc' = "decode"
    /\ UNCHANGED << dev_open, stream_open, snapshot >>
    /\ UNCHANGED << stats, f_count, f_flag, f_preview, previewVars >>
    /\ UNCHANGED << calVars, lockVars, handlerVars, flagVars, videoVars, mainVars, outVars,
                    respVars, ctrlVars, exitVars, colorVars, moreVars >>

\* the conversion to RGB; a failed MJPEG decode goes to the next iteration
\* (continue) without counting the frame
decode_frame ==
    /\ process = "running"
    /\ p_pc = "decode"
    /\ \E ok \in BOOLEAN : p_pc' = IF ok THEN "write" ELSE "top"
    /\ UNCHANGED << dev_open, stream_open, snapshot, p_enabled >>
    /\ UNCHANGED << calVars, lockVars, handlerVars, flagVars, videoVars, mainVars, outVars, extraVars >>

after_write_fatal(ret) == IF ret = "Err" THEN "failed" ELSE "preview"

\* if let Err(e) = output.write_frame_rgb(output_rgb) { warn!(..) }: where
\* the loop goes after the write
after_write(ret) == "preview"

\* the warp and output.write_frame_rgb(output_rgb); an Err is logged only
write_output ==
    /\ process = "running"
    /\ p_pc = "write"
    /\ \E script \in FrameScripts :
          LET r == write_frame_rgb(camera, Width * Height * 3, "fail", script)
          IN  /\ camera' = r.camera
              /\ p_pc' = after_write(r.ret)
    /\ UNCHANGED << dev_open, stream_open, snapshot, p_enabled, calls >>
    /\ UNCHANGED << calVars, lockVars, handlerVars, flagVars, videoVars, mainVars, extraVars >>

\* if state.should_encode_preview() && frame_count % 3 == 0 { .. } else { None }
check_preview ==
    /\ process = "running"
    /\ p_pc = "preview"
    /\ f_flag' = preview_clients_active
    /\ IF should_encode_preview /\ f_count % 3 = 0
       THEN p_pc' = "update_preview" /\ UNCHANGED f_preview
       ELSE p_pc' = "record" /\ f_preview' = None
    /\ UNCHANGED << dev_open, stream_open, snapshot, p_enabled >>
    /\ UNCHANGED << stats, f_seq, f_count, previewVars >>
    /\ UNCHANGED << calVars, lockVars, handlerVars, flagVars, videoVars, mainVars, outVars,
                    respVars, ctrlVars, exitVars, colorVars, moreVars >>

\* state.update_preview: the slot is replaced if encode_jpeg succeeds
update_preview ==
    /\ process = "running"
    /\ p_pc = "update_preview"
    /\ \E ok \in BOOLEAN : preview_frame' = IF ok THEN f_seq ELSE preview_frame
    /\ p_pc' = "update_raw_preview"
    /\ UNCHANGED << dev_open, stream_open, snapshot, p_enabled >>
    /\ UNCHANGED << preview_clients_active, raw_preview_frame, frameVars >>
    /\ UNCHANGED << calVars, lockVars, handlerVars, flagVars, videoVars, mainVars, outVars,
                    respVars, ctrlVars, exitVars, colorVars, moreVars >>

\* state.update_raw_preview, then Some(preview_start.elapsed())
update_raw_preview ==
    /\ process = "running"
    /\ p_pc = "update_raw_preview"
    /\ \E ok \in BOOLEAN : raw_preview_frame' = IF ok THEN f_seq ELSE raw_preview_frame
    /\ \E us \in InMicros : f_preview' = Some(us)
    /\ p_pc' = "record"
    /\ UNCHANGED << dev_open, stream_open, snapshot, p_enabled >>
    /\ UNCHANGED << preview_clients_active, preview_frame, stats, f_seq, f_count, f_flag >>
    /\ UNCHANGED << calVars, lockVars, handlerVars, flagVars, videoVars, mainVars, outVars,
                    respVars, ctrlVars, exitVars, colorVars, moreVars >>

\* AppState::record_frame_stats, the counters
record_frame_stats(st, preview_encode_us) ==
    IF preview_encode_us = None
    THEN [ st EXCEPT !.frames_processed = @ + 1 ]
    ELSE [ st EXCEPT !.frames_processed = @ + 1,
                     !.total_preview_encode_us = @ + preview_encode_us[1],
                     !.preview_frames_encoded = @ + 1 ]

\* state.record_frame_stats(..); frame_count += 1; the periodic log, when
\* due, sets frame_count back to 0
record_stats ==
    /\ process = "running"
    /\ p_pc = "record"
    /\ stats' = record_frame_stats(stats, f_preview)
    /\ \E logged \in BOOLEAN : f_count' = IF logged THEN 0 ELSE f_count + 1
    /\ p_pc' = "top"
    /\ UNCHANGED << dev_open, stream_open, snapshot, p_enabled >>
    /\ UNCHANGED << f_seq, f_flag, f_preview, previewVars >>
    /\ UNCHANGED << calVars, lockVars, handlerVars, flagVars, videoVars, mainVars, outVars,
                    respVars, ctrlVars, exitVars, colorVars, moreVars >>

\* POST /api/preview/activate and /api/preview/deactivate
set_preview_active(active) ==
    /\ process = "running"
    /\ preview_clients_active' = active
    /\ UNCHANGED << preview_frame, raw_preview_frame, frameVars >>
    /\ UNCHANGED << calVars, sharedVars, outVars, respVars, ctrlVars, exitVars, colorVars, moreVars >>

activate_preview == set_preview_active(TRUE)

deactivate_preview == set_preview_active(FALSE)

\* POST /api/stats/reset: PerformanceStats::reset
reset_stats ==
    /\ process = "running"
    /\ stats' = PerformanceStatsDefault
    /\ UNCHANGED << f_seq, f_count, f_flag, f_preview, previewVars >>
    /\ UNCHANGED << calVars, sharedVars, outVars, respVars, ctrlVars, exitVars, colorVars, moreVars >>

\* ----------------------------------------------------------------------
\* SpecFrame: the pipeline's loop in full, with the preview and statistics
\* handlers
\* ----------------------------------------------------------------------
FrameNext ==
    \/ open_device
    \/ init_output
    \/ frame_create_stream
    \/ loop_top
    \/ stream_next
    \/ get_transform
    \/ frame_read_enabled
    \/ decode_frame
    \/ write_output
    \/ check_preview
    \/ update_preview
    \/ update_raw_preview
    \/ record_stats
    \/ activate_preview
    \/ deactivate_preview
    \/ reset_stats
    \/ main_select

SpecFrame == Init /\ [][FrameNext]_vars

\* ----------------------------------------------------------------------
\* camera_controls.rs and the camera-control handlers of server.rs
\* ----------------------------------------------------------------------
\* the ids and values a request names; 300 is above CameraControl.maximum
InCtrlIds == DeviceControlIds
InCtrlValues == { 128, 300 }

\* CameraControl.maximum of every control
ControlMaximum == 255

\* ControlValue::None, the cached value of a control the device did not read
ControlValueNone == 0 - 1

\* what the driver stores for an accepted write: the value, or the value
\* clamped to the control's range
DeviceApplied(value) == { value, IF value > ControlMaximum THEN ControlMaximum ELSE value }

\* CameraControlsManager::query_controls with a device that opened: the
\* cache is rebuilt from the device, ControlValue::None where the read failed
query_controls(dev, readable) ==
    [id \in ControlIds |-> IF id \in readable THEN dev[id] ELSE ControlValueNone]

\* AppState::init_camera_controls, called once by run_pipeline; the
\* configuration holds no saved controls at that point
init_camera_controls ==
    /\ camera_controls = None
    /\ ctrl_resp.op = "none"
    /\ \E ok \in BOOLEAN, readable \in SUBSET ControlIds :
          /\ camera_controls' = IF ok THEN Some(query_controls(device_ctrl, readable)) ELSE None
          /\ ctrl_resp' = [ctrl_resp EXCEPT !.op = "init"]
    /\ UNCHANGED << device_ctrl, config_controls >>
    /\ UNCHANGED << calVars, sharedVars, outVars, previewVars, frameVars, respVars, exitVars, colorVars, moreVars >>

set_control_cache_first(cache, dev, id, value, accepted, applied) ==
    [ ok |-> accepted,
      cache |-> IF id \in DOMAIN cache THEN [cache EXCEPT ![id] = value] ELSE cache,
      dev |-> IF accepted THEN [dev EXCEPT ![id] = applied] ELSE dev ]

\* CameraControlsManager::set_control: the device first, the cache after it
set_control(cache, dev, id, value, accepted, applied) ==
    IF ~accepted
    THEN [ ok |-> FALSE, cache |-> cache, dev |-> dev ]
    ELSE [ ok |-> TRUE,
           cache |-> IF id \in DOMAIN cache THEN [cache EXCEPT ![id] = value] ELSE cache,
           dev |-> [dev EXCEPT ![id] = applied] ]

\* POST /api/camera/control/:id, AppState::set_camera_control
set_camera_control(id, value, accepted, applied) ==
    /\ process = "running"
    /\ IF camera_controls = None
       THEN /\ ctrl_resp' = [ op |-> "set", id |-> id, value |-> value, status |-> "OK", seq |-> 1 - ctrl_resp.seq ]
            /\ UNCHANGED << camera_controls, device_ctrl, config_controls >>
       ELSE LET r == set_control(camera_controls[1], device_ctrl, id, value, accepted, applied) IN
            /\ device_ctrl' = r.dev
            /\ camera_controls' = Some(r.cache)
            /\ IF r.ok
               THEN /\ ctrl_resp' = [ op |-> "set", id |-> id, value |-> value, status |-> "OK", seq |-> 1 - ctrl_resp.seq ]
                    /\ IF id \in ControlIds
                       THEN /\ CanWriteConfig
                            /\ config_controls' = [config_controls EXCEPT ![id] = Some(value)]
                       ELSE UNCHANGED config_controls
               ELSE /\ ctrl_resp' = [ op |-> "set", id |-> id, value |-> value,
                                      status |-> "INTERNAL_SERVER_ERROR",
                                      seq |-> 1 - ctrl_resp.seq ]
                    /\ UNCHANGED config_controls
    /\ UNCHANGED << calVars, sharedVars, outVars, previewVars, frameVars, respVars, exitVars, colorVars, moreVars >>

\* CameraControlsManager::refresh_values
refresh_values(cache, dev, readable) ==
    [id \in DOMAIN cache |-> IF id \in readable THEN dev[id] ELSE cache[id]]

\* POST /api/camera/controls/refresh, AppState::refresh_camera_controls
refresh_camera_controls(opened, readable) ==
    /\ process = "running"
    /\ IF camera_controls = None
       THEN /\ ctrl_resp' = [ op |-> "refresh", id |-> 0, value |-> 0, status |-> "OK", seq |-> 1 - ctrl_resp.seq ]
            /\ UNCHANGED camera_controls
       ELSE IF opened
       THEN /\ camera_controls' = Some(refresh_values(camera_controls[1], device_ctrl, readable))
            /\ ctrl_resp' = [ op |-> "refresh", id |-> 0, value |-> 0, status |-> "OK", seq |-> 1 - ctrl_resp.seq ]
       ELSE /\ ctrl_resp' = [ op |-> "refresh", id |-> 0, value |-> 0,
                              status |-> "INTERNAL_SERVER_ERROR",
                                      seq |-> 1 - ctrl_resp.seq ]
            /\ UNCHANGED camera_controls
    /\ UNCHANGED << device_ctrl, config_controls >>
    /\ UNCHANGED << calVars, sharedVars, outVars, previewVars, frameVars, respVars, exitVars, colorVars, moreVars >>

SetCameraControl ==
    \E id \in InCtrlIds, value \in InCtrlValues, accepted \in BOOLEAN :
        \E applied \in DeviceApplied(value) : set_camera_control(id, value, accepted, applied)

RefreshCameraControls ==
    \E opened \in BOOLEAN, readable \in SUBSET ControlIds :
        refresh_camera_controls(opened, readable)

ControlsNext ==
    \/ init_camera_controls
    \/ SetCameraControl
    \/ RefreshCameraControls

SpecControls == Init /\ [][ControlsNext]_vars

\* ----------------------------------------------------------------------
\* color.rs and capture.rs: YUYV to RGB, on one macropixel (a 2x1 frame)
\* ----------------------------------------------------------------------
\* the bytes Y0 U Y1 V of a macropixel
InLuma == 0..255
InLuma1 == { 0, 16, 128, 255 }
InChromaU == { 128, 90 }
InChromaV == { 128, 240 }
InYuyv == { << y0, u, y1, v >> : y0 \in InLuma, u \in InChromaU, y1 \in InLuma1, v \in InChromaV }

\* ColorSpace and QuantizationRange
ColorSpaces == { "Bt601", "Bt709", "Bt2020" }
QuantizationRanges == { "Limited", "Full" }

\* config.color: color_space and input_range
InColorSettings == [ color_space : ColorSpaces, input_range : QuantizationRanges ]

\* x >> 8 on i32, an arithmetic shift
shr8(x) == x \div 256

\* .clamp(0, 255) as u8
clamp_u8(x) == IF x < 0 THEN 0 ELSE IF x > 255 THEN 255 ELSE x

\* ColorMatrix::from_color_space, the coefficients in millionths
from_color_space(cs) ==
    CASE cs = "Bt601" -> [ kr |-> 1402000, kg_u |-> 344136, kg_v |-> 714136, kb |-> 1772000 ]
      [] cs = "Bt709" -> [ kr |-> 1574800, kg_u |-> 187300, kg_v |-> 468100, kb |-> 1855600 ]
      [] cs = "Bt2020" -> [ kr |-> 1474600, kg_u |-> 164600, kg_v |-> 571400, kb |-> 1881400 ]

\* ColorMatrix::to_fixed_point: (k * 256.0) as i32
to_fixed_point(m) ==
    [ kr |-> (m.kr * 256) \div 1000000,
      kg_u |-> (m.kg_u * 256) \div 1000000,
      kg_v |-> (m.kg_v * 256) \div 1000000,
      kb |-> (m.kb * 256) \div 1000000 ]

\* (y_offset, y_scale, c_scale) of an input range
range_expansion(input_range) ==
    IF input_range = "Limited"
    THEN [ y_offset |-> 16, y_scale |-> 298, c_scale |-> 291 ]
    ELSE [ y_offset |-> 0, y_scale |-> 256, c_scale |-> 256 ]

yuyv_to_rgb_corrected_unexpanded(yuyv, color_space, input_range) ==
    LET matrix == to_fixed_point(from_color_space(color_space))
        u == yuyv[2] - 128
        v == yuyv[4] - 128
        v_r == shr8(matrix.kr * v)
        uv_g == shr8(matrix.kg_u * u + matrix.kg_v * v)
        u_b == shr8(matrix.kb * u)
    IN  << clamp_u8(yuyv[1] + v_r), clamp_u8(yuyv[1] - uv_g), clamp_u8(yuyv[1] + u_b),
           clamp_u8(yuyv[3] + v_r), clamp_u8(yuyv[3] - uv_g), clamp_u8(yuyv[3] + u_b) >>

\* color.rs yuyv_to_rgb_corrected on one macropixel: the six RGB bytes
yuyv_to_rgb_corrected(yuyv, color_space, input_range) ==
    LET matrix == to_fixed_point(from_color_space(color_space))
        e == range_expansion(input_range)
        y0 == shr8((yuyv[1] - e.y_offset) * e.y_scale)
        y1 == shr8((yuyv[3] - e.y_offset) * e.y_scale)
        u == shr8((yuyv[2] - 128) * e.c_scale)
        v == shr8((yuyv[4] - 128) * e.c_scale)
        v_r == shr8(matrix.kr * v)
        uv_g == shr8(matrix.kg_u * u + matrix.kg_v * v)
        u_b == shr8(matrix.kb * u)
    IN  << clamp_u8(y0 + v_r), clamp_u8(y0 - uv_g), clamp_u8(y0 + u_b),
           clamp_u8(y1 + v_r), clamp_u8(y1 - uv_g), clamp_u8(y1 + u_b) >>

\* capture.rs yuyv_to_rgb on one macropixel: fixed BT.601, no expansion
yuyv_to_rgb(yuyv) ==
    LET u == yuyv[2] - 128
        v == yuyv[4] - 128
        v_r == shr8(359 * v)
        uv_g == shr8(88 * u + 183 * v)
        u_b == shr8(454 * u)
    IN  << clamp_u8(yuyv[1] + v_r), clamp_u8(yuyv[1] - uv_g), clamp_u8(yuyv[1] + u_b),
           clamp_u8(yuyv[3] + v_r), clamp_u8(yuyv[3] - uv_g), clamp_u8(yuyv[3] + u_b) >>

\* everything but color_call
colorRest == << calVars, sharedVars, outVars, previewVars, frameVars, respVars, ctrlVars,
                exitVars, moreVars >>

\* a call of yuyv_to_rgb_corrected(yuyv, rgb, 2, 1, color_space, input_range)
call_yuyv_to_rgb_corrected ==
    /\ color_call = None
    /\ \E yuyv \in InYuyv, c \in InColorSettings :
          color_call' = Some([ by |-> "caller", color |-> c, yuyv |-> yuyv,
                               converter |-> "yuyv_to_rgb_corrected",
                               rgb |-> yuyv_to_rgb_corrected(yuyv, c.color_space,
                                                             c.input_range) ])
    /\ UNCHANGED << colorRest >>

\* run_pipeline's format dispatch on a YUYV frame, under the color settings
\* of the configuration: `else if is_yuyv { yuyv_to_rgb(..) }`
pipeline_convert_yuyv ==
    /\ color_call = None
    /\ \E yuyv \in InYuyv, c \in InColorSettings :
          color_call' = Some([ by |-> "run_pipeline", color |-> c, yuyv |-> yuyv,
                               converter |-> "yuyv_to_rgb",
                               rgb |-> yuyv_to_rgb(yuyv) ])
    /\ UNCHANGED << colorRest >>

ColorNext ==
    \/ call_yuyv_to_rgb_corrected
    \/ pipeline_convert_yuyv

SpecColor == Init /\ [][ColorNext]_vars

\* ----------------------------------------------------------------------
\* server.rs: the preview slots, their RwLocks, the pipeline publishing
\* into them and the handlers cloning out of them.  A Vec is stored and
\* cloned in two halves, each step under the guard the code holds.
\* ----------------------------------------------------------------------
slotRest == << calVars, sharedVars, outVars, previewVars, frameVars, respVars, ctrlVars,
               exitVars, colorVars, lockingVars, negoVars, lateVars >>

slot_read_unguarded(k) == TRUE

\* RwLock::read on a slot: granted when no writer holds it
slot_read(k) == ~slot_guard[k].writer

\* RwLock::write on a slot: granted when nobody holds it
slot_write(k) == ~slot_guard[k].writer /\ slot_guard[k].readers = {}

\* capture.rs: the frame in hand reaches state.update_preview(..)
publish_frame ==
    /\ pub.pc = "idle"
    /\ pub.seq < MaxFrames
    /\ pub' = [pc |-> "encode", k |-> "preview", seq |-> pub.seq + 1]
    /\ UNCHANGED << slot_bytes, slot_guard, rd, slotRest >>

\* where the pipeline goes after update_preview (to update_raw_preview) and
\* after update_raw_preview (back to the loop)
AfterSlot(p) ==
    IF p.k = "preview" THEN [ p EXCEPT !.pc = "encode", !.k = "raw" ]
    ELSE [ p EXCEPT !.pc = "idle", !.k = "preview" ]

\* if let Ok(jpeg) = encode_jpeg(..): an Err skips the store
encode_jpeg ==
    /\ pub.pc = "encode"
    /\ \E ok \in BOOLEAN : pub' = IF ok THEN [ pub EXCEPT !.pc = "lock" ] ELSE AfterSlot(pub)
    /\ UNCHANGED << slot_bytes, slot_guard, rd, slotRest >>

\* self.preview_frame.write()
slot_write_lock ==
    /\ pub.pc = "lock"
    /\ slot_write(pub.k)
    /\ slot_guard' = [ slot_guard EXCEPT ![pub.k].writer = TRUE ]
    /\ pub' = [ pub EXCEPT !.pc = "store" ]
    /\ UNCHANGED << slot_bytes, rd, slotRest >>

\* *guard = jpeg, the first half
slot_store ==
    /\ pub.pc = "store"
    /\ slot_bytes' = [ slot_bytes EXCEPT ![pub.k][1] = Jpeg(pub.seq)[1] ]
    /\ pub' = [ pub EXCEPT !.pc = "store_rest" ]
    /\ UNCHANGED << slot_guard, rd, slotRest >>

\* *guard = jpeg, the second half; the guard is dropped at the end of the
\* statement
slot_store_rest ==
    /\ pub.pc = "store_rest"
    /\ slot_bytes' = [ slot_bytes EXCEPT ![pub.k][2] = Jpeg(pub.seq)[2] ]
    /\ slot_guard' = [ slot_guard EXCEPT ![pub.k].writer = FALSE ]
    /\ pub' = AfterSlot(pub)
    /\ UNCHANGED << rd, slotRest >>

\* get_preview / get_raw_preview / a tick of preview_stream: .read()
slot_read_lock(r) ==
    /\ rd[r].pc = "idle"
    /\ slot_read(SlotOf(r))
    /\ slot_guard' = [ slot_guard EXCEPT ![SlotOf(r)].readers = @ \cup { r } ]
    /\ rd' = [ rd EXCEPT ![r].pc = "clone" ]
    /\ UNCHANGED << slot_bytes, pub, slotRest >>

\* .clone(), the first half
slot_clone(r) ==
    /\ rd[r].pc = "clone"
    /\ rd' = [ rd EXCEPT ![r].pc = "clone_rest", ![r].copy[1] = slot_bytes[SlotOf(r)][1] ]
    /\ UNCHANGED << slot_bytes, slot_guard, pub, slotRest >>

\* .clone(), the second half; the guard is dropped and the Vec returned
slot_clone_rest(r) ==
    /\ rd[r].pc = "clone_rest"
    /\ rd' = [ rd EXCEPT ![r].pc = "idle", ![r].copy[2] = slot_bytes[SlotOf(r)][2] ]
    /\ slot_guard' = [ slot_guard EXCEPT ![SlotOf(r)].readers = @ \ { r } ]
    /\ UNCHANGED << slot_bytes, pub, slotRest >>

PreviewNext ==
    \/ publish_frame
    \/ encode_jpeg
    \/ slot_write_lock
    \/ slot_store
    \/ slot_store_rest
    \/ \E r \in Readers : slot_read_lock(r)
    \/ \E r \in Readers : slot_clone(r)
    \/ \E r \in Readers : slot_clone_rest(r)

SpecPreview == Init /\ [][PreviewNext]_vars

\* ----------------------------------------------------------------------
\* server.rs, capture.rs: the four parking_lot RwLocks of the shared state
\* and the order in which every operation takes them, releases them and
\* performs I/O
\* ----------------------------------------------------------------------
lockRest == << calVars, sharedVars, outVars, previewVars, frameVars, respVars, ctrlVars,
               exitVars, colorVars, slotVars, negoVars, lateVars >>

Rd(l) == [kind |-> "read", on |-> l]
Wr(l) == [kind |-> "write", on |-> l]
Drop(l) == [kind |-> "drop", on |-> l]
Io(what) == [kind |-> "io", on |-> what]

\* what an operation does, step by step, in program order; a guard bound by
\* `let` is dropped at the end of its block, a temporary at the end of its
\* statement
Program(op) ==
    CASE op = "get_info" ->
           << Rd("config"), Rd("camera_controls"), Drop("camera_controls"), Drop("config") >>
      [] op = "set_camera_control" ->
           << Wr("camera_controls"), Io("ioctl"), Wr("config"), Drop("config"),
              Drop("camera_controls") >>
      [] op = "set_camera_control_err" ->
           << Wr("camera_controls"), Io("ioctl"), Drop("camera_controls") >>
      [] op = "reset_camera_controls" ->
           << Wr("camera_controls"), Io("ioctl"), Wr("config"), Drop("config"),
              Drop("camera_controls") >>
      [] op = "refresh_camera_controls" ->
           << Wr("camera_controls"), Io("ioctl"), Drop("camera_controls") >>
      [] op = "save_config" ->
           << Rd("config"), Io("file"), Drop("config") >>
      [] op = "set_pending_video_settings" ->
           << Wr("pending"), Wr("config"), Drop("config"),
              Rd("config"), Io("file"), Drop("config"), Drop("pending") >>
      [] op = "update_point" ->
           << Wr("config"), Drop("config"),
              Rd("config"), Wr("transform"), Drop("transform"), Drop("config") >>
      [] op = "enable_calibration" ->
           << Wr("config"), Drop("config") >>
      [] op = "init_camera_controls" ->
           << Io("ioctl"), Rd("config"), Io("ioctl"), Drop("config"),
              Wr("camera_controls"), Drop("camera_controls") >>
      [] op = "frame" ->
           << Io("capture"), Rd("transform"), Drop("transform"),
              Rd("config"), Drop("config"), Io("loopback") >>

\* the operations an HTTP handler thread runs, and those of the pipeline
HandlerOps ==
    { "get_info", "set_camera_control", "set_camera_control_err", "reset_camera_controls",
      "refresh_camera_controls", "save_config", "set_pending_video_settings",
      "update_point", "enable_calibration" }

PipelineOps == { "init_camera_controls", "frame" }

OpsOf(t) == IF t = "pipeline" THEN PipelineOps ELSE HandlerOps

\* the step thread t is about to take
NextStep(t) == Program(thread[t].op)[thread[t].pc]

\* the locks thread t holds
Holds(t) == { l \in LockNames : guards[l].writer = t \/ t \in guards[l].readers }

\* RwLock::read: parking_lot does not admit a reader while a writer holds
\* the lock or is parked waiting for it
read_granted(l) == guards[l].writer = "none" /\ guards[l].waiting = {}

\* RwLock::write: granted when nobody holds the lock
write_granted(l) == guards[l].writer = "none" /\ guards[l].readers = {}

Advance(t) ==
    IF thread[t].pc = Len(Program(thread[t].op))
    THEN [ thread EXCEPT ![t] = [op |-> "none", pc |-> 0] ]
    ELSE [ thread EXCEPT ![t].pc = @ + 1 ]

\* a request arrives at a handler thread, or the pipeline goes on to its
\* next operation
begin_op(t) ==
    /\ thread[t].pc = 0
    /\ \E op \in OpsOf(t) : thread' = [ thread EXCEPT ![t] = [op |-> op, pc |-> 1] ]
    /\ UNCHANGED << guards, lockRest >>

lock_read(t) ==
    /\ thread[t].pc > 0
    /\ NextStep(t).kind = "read"
    /\ read_granted(NextStep(t).on)
    /\ guards' = [ guards EXCEPT ![NextStep(t).on].readers = @ \cup { t } ]
    /\ thread' = Advance(t)
    /\ UNCHANGED lockRest

\* a writer that finds the lock held parks itself
lock_write_park(t) ==
    /\ thread[t].pc > 0
    /\ NextStep(t).kind = "write"
    /\ ~write_granted(NextStep(t).on)
    /\ t \notin guards[NextStep(t).on].waiting
    /\ guards' = [ guards EXCEPT ![NextStep(t).on].waiting = @ \cup { t } ]
    /\ UNCHANGED << thread, lockRest >>

lock_write(t) ==
    /\ thread[t].pc > 0
    /\ NextStep(t).kind = "write"
    /\ write_granted(NextStep(t).on)
    /\ guards' = [ guards EXCEPT ![NextStep(t).on].writer = t,
                                 ![NextStep(t).on].waiting = @ \ { t } ]
    /\ thread' = Advance(t)
    /\ UNCHANGED lockRest

lock_drop(t) ==
    /\ thread[t].pc > 0
    /\ NextStep(t).kind = "drop"
    /\ guards' = [ guards EXCEPT ![NextStep(t).on].readers = @ \ { t },
                                 ![NextStep(t).on].writer =
                                     IF @ = t THEN "none" ELSE @ ]
    /\ thread' = Advance(t)
    /\ UNCHANGED lockRest

\* the file write, ioctl, capture or loopback write of the step
do_io(t) ==
    /\ thread[t].pc > 0
    /\ NextStep(t).kind = "io"
    /\ thread' = Advance(t)
    /\ UNCHANGED << guards, lockRest >>

ThreadStep(t) ==
    lock_read(t) \/ lock_write_park(t) \/ lock_write(t) \/ lock_drop(t) \/ do_io(t)

LocksNext ==
    \/ \E t \in Threads : begin_op(t)
    \/ \E t \in Threads : lock_read(t)
    \/ \E t \in Threads : lock_write_park(t)
    \/ \E t \in Threads : lock_write(t)
    \/ \E t \in Threads : lock_drop(t)
    \/ \E t \in Threads : do_io(t)

SpecLocks == Init /\ [][LocksNext]_vars

\* every thread that can take a step of its operation eventually does: the
\* locks are eventually fair and the I/O returns
SpecLocksFair == SpecLocks /\ \A t \in Threads : SF_vars(ThreadStep(t))

\* ----------------------------------------------------------------------
\* capture.rs, server.rs: the size the capture format is negotiated to and
\* the size the shared transform is built for
\* ----------------------------------------------------------------------
negoRest == << sharedVars, outVars, previewVars, frameVars, respVars, ctrlVars,
               exitVars, colorVars, slotVars, lockingVars, lateVars >>

\* the sizes dev.set_format (or, when it fails, dev.format) can answer a
\* request for width x height with: the requested size, or the nearest one
\* the device supports
DeviceSizes(width, height) ==
    { << width, height >>, << 320, 240 >>, << 1280, 720 >> }

\* how configure_capture_format can end with a format: one of
\* PREFERRED_FORMATS accepted by set_format, the device's default pixel format
\* accepted by the fallback set_format, or dev.format() after it failed
FormatOutcomes == { "MJPG", "YUYV", "RGB3", "BGR3", "default", "current" }

\* src_width, src_height, dst_width, dst_height of the PerspectiveTransform
\* from_calibration(cal, width, height) builds
transform_size(width, height) ==
    [ src_width |-> width, src_height |-> height,
      dst_width |-> width, dst_height |-> height ]

\* AppState::new and update_transform build the transform for AppState's
\* width and height, the configured video size main passes in
state_transform_size == transform_size(Width, Height)

\* let format = configure_capture_format(&dev, width, height)?
configure_capture_format ==
    /\ capture_format = None
    /\ \E how \in FormatOutcomes, size \in DeviceSizes(Width, Height) :
          capture_format' = Some([ how |-> how, width |-> size[1], height |-> size[2] ])
    /\ UNCHANGED << warped, calVars, negoRest >>

\* transform.warp_rgb(working_rgb, &mut output_rgb_buffer) on buffers of
\* format.width * format.height * 3 bytes, with state.get_transform()
warp_frame ==
    /\ capture_format # None
    /\ calibration.enabled
    /\ warped' = Some([ transform |-> state_transform_size,
                        buffers |-> capture_format[1] ])
    /\ UNCHANGED << capture_format, calVars, negoRest >>

NegotiateNext ==
    \/ CalUpdatePoint
    \/ CalSetCalibration
    \/ reset_calibration_handler
    \/ enable_calibration
    \/ disable_calibration
    \/ configure_capture_format
    \/ warp_frame

SpecNegotiate == Init /\ [][NegotiateNext]_vars

\* ----------------------------------------------------------------------
\* capture.rs: the body of run_pipeline's loop as one pass per captured
\* frame, with the handlers that set the flags it reads
\* ----------------------------------------------------------------------
loopRest == << transform, issued, lockVars, handlerVars, pipeVars, flagVars, videoVars,
               mainVars, calls, preview_clients_active, respVars, ctrlVars, exitVars,
               colorVars, slotVars, lockingVars, negoVars, initVars, seenVars, statVars >>

select_output_always_warped(calibration_enabled) == "warped"

\* let output_rgb = if calibration_enabled { warp into output_rgb_buffer }
\* else { working_rgb }
select_output(calibration_enabled) ==
    IF calibration_enabled THEN "warped" ELSE "decoded"

\* one pass through the loop body for the frame stream.next() delivered:
\* the new frame_count, whether the decode warning was logged, which buffer
\* went to the loopback writer and whether the previews were encoded
loop_body(frame_count, decode_ok, calibration_enabled, should_encode, stats_due) ==
    IF ~decode_ok
    THEN [ frame_count |-> frame_count, decoded |-> FALSE,
           warned |-> (frame_count % 100 = 0), out |-> None, encoded |-> FALSE ]
    ELSE [ frame_count |-> IF stats_due THEN 0 ELSE frame_count + 1, decoded |-> TRUE,
           warned |-> FALSE, out |-> Some(select_output(calibration_enabled)),
           encoded |-> (should_encode /\ frame_count % 3 = 0) ]

\* history: the processed frames since the last encode, -1 before the first
\* encode or while no preview client is active
SinceEncode(since, r, active) ==
    IF ~r.decoded THEN since
    ELSE IF ~active THEN 0 - 1
    ELSE IF r.encoded THEN 1
    ELSE IF since < 0 THEN since
    ELSE Min(since + 1, 4)

\* a frame is captured and taken through the loop body, after
\* output.initialize() succeeded
process_frame ==
    /\ process = "running"
    /\ camera.initialized
    /\ f_seq < MaxFrames
    /\ \E decode_ok \in BOOLEAN, stats_due \in BOOLEAN, jpeg_ok \in BOOLEAN,
          raw_ok \in BOOLEAN, script \in FrameScripts, us \in InMicros :
          LET r == loop_body(f_count, decode_ok, calibration.enabled,
                             should_encode_preview, stats_due)
              w == write_frame_rgb(camera, Width * Height * 3, "fail", script)
              elapsed == IF r.encoded THEN Some(us) ELSE None
          IN  /\ f_seq' = f_seq + 1
              /\ f_count' = r.frame_count
              /\ camera' = IF r.decoded THEN w.camera ELSE camera
              /\ preview_frame' = IF r.encoded /\ jpeg_ok THEN f_seq + 1 ELSE preview_frame
              /\ raw_preview_frame' =
                     IF r.encoded /\ raw_ok THEN f_seq + 1 ELSE raw_preview_frame
              /\ stats' = IF r.decoded THEN record_frame_stats(stats, elapsed) ELSE stats
              /\ f_flag' = IF r.decoded THEN preview_clients_active ELSE f_flag
              /\ f_preview' = IF r.decoded THEN elapsed ELSE f_preview
              /\ f_hist' = [ seq |-> f_seq + 1, decoded |-> r.decoded, warned |-> r.warned,
                             out |-> r.out, encoded |-> r.encoded,
                             enabled |-> calibration.enabled,
                             prev_warned |-> f_hist.warned,
                             gap |-> f_hist.since_enc,
                             since_enc |-> SinceEncode(f_hist.since_enc, r,
                                                       preview_clients_active) ]
    /\ UNCHANGED << calibration, loopRest >>

LoopNext ==
    \/ OutInitialize
    \/ process_frame
    \/ enable_calibration
    \/ disable_calibration
    \/ activate_preview

SpecLoop == Init /\ [][LoopNext]_vars

\* ----------------------------------------------------------------------
\* Properties of the shared state (checked under SpecShared)
\* ----------------------------------------------------------------------
\* the transforms of the calibrations committed so far
CommittedTransforms == { from_calibration(c, Width, Height) : c \in committed }

\* C1: in every interleaving of the calibration handlers with the pipeline
\* thread, the cached transform, and so each snapshot the pipeline takes of
\* it, is from_calibration of a calibration that had been fully committed to
\* the shared config by then; never a mix of two calibrations, never built
\* from a calibration not yet committed.
C1_SnapshotIsCommittedTransform ==
    /\ transform \in CommittedTransforms
    /\ snapshot \in CommittedTransforms

\* the pipeline holds a snapshot of an updated transform while a writer is
\* inside its write section with a calibration not yet committed
C1_Witness ==
    /\ p_pc = "enabled"
    /\ snapshot # from_calibration(CalibrationDefault, Width, Height)
    /\ cfg_writer # "none"
    /\ calibration \notin committed

\* the corners the bulk request writes, as stored and as transform sources
BulkCorner(i) == Point(clamp(SharedBulk[i].x), clamp(SharedBulk[i].y))

\* a calibration, or the source corners of a transform, shows both entries
\* of the bulk request or neither (no other request writes corners 0 and 1,
\* and a reset restores both)
CalAllOrNone(cal) ==
    (cal.corners[1] = BulkCorner(1)) <=> (cal.corners[2] = BulkCorner(2))

TransformAllOrNone(t) ==
    (t.src[1] = to_pixels(BulkCorner(1), Width, Height))
        <=> (t.src[2] = to_pixels(BulkCorner(2), Width, Height))

\* C2: a bulk update of k >= 2 points is atomic for every observer: each
\* calibration read by a handler and each transform built, cached or
\* snapshotted by the pipeline reflects all of its point updates or none.
C2_BulkUpdateAtomic ==
    /\ CalAllOrNone(obs)
    /\ TransformAllOrNone(transform)
    /\ TransformAllOrNone(snapshot)
    /\ \A h \in Handlers : TransformAllOrNone(h_new[h])

\* the shared config holds one of the two bulk entries only, the bulk loop
\* is between them, and the pipeline is about to take its snapshot
C2_Witness ==
    /\ cfg_writer # "none"
    /\ Len(h_todo[cfg_writer]) = 1
    /\ ~CalAllOrNone(calibration)
    /\ p_pc = "frame"

\* ----------------------------------------------------------------------
\* Properties of the release and restart paths (checked under SpecRestart)
\* ----------------------------------------------------------------------
\* C3: the restart path runs only after the camera has been released: the
\* restart monitor does not act on restart_requested (trigger the restart
\* service, exit the process) before camera_released is true and the
\* pipeline has closed the capture device.
C3_RestartOnlyAfterCameraReleased ==
    m_pc # "sleep" => (camera_released /\ ~dev_open)

\* C4: once the pipeline has seen camera_release_requested at the top of an
\* iteration it captures no further frame, and camera_released is set only
\* after both the capture stream and the device handle have been dropped.
C4_ReleasedAfterStreamAndDeviceDropped ==
    /\ p_pc \in { "release", "dropped", "waiting", "returned_ok" } => camera_release_requested
    /\ (camera_released /\ p_pc = "waiting") => (~stream_open /\ ~dev_open)

\* ----------------------------------------------------------------------
\* Properties of the calibration record (checked under SpecCal)
\* ----------------------------------------------------------------------
InUnit(v) == 0 <= v /\ v <= One

EdgePointIds(cal) == { cal.edge_points[i].id : i \in 1..Len(cal.edge_points) }

NoDuplicates(s) == \A i, j \in 1..Len(s) : i # j => s[i] # s[j]

\* C5: after any sequence of calibration writes with arbitrary input
\* coordinates, every stored corner and every stored edge point has x and y
\* in [0,1].
C5_AllCoordinatesInUnitSquare ==
    /\ \A i \in 1..4 : InUnit(calibration.corners[i].x) /\ InUnit(calibration.corners[i].y)
    /\ \A i \in 1..Len(calibration.edge_points) :
          InUnit(calibration.edge_points[i].x) /\ InUnit(calibration.edge_points[i].y)

\* C6: in every reachable calibration the edge points of one edge appear in
\* edge_points in non-decreasing order of t.
C6_EdgePointsAscendingByT ==
    \A i, j \in 1..Len(calibration.edge_points) :
        (i < j /\ calibration.edge_points[i].edge = calibration.edge_points[j].edge)
            => ~FracLess(calibration.edge_points[j].t, calibration.edge_points[i].t)

\* C7: every stored edge point has edge in {0,1,2,3}, whatever edge value an
\* add request named.
C7_EdgeInRange ==
    \A i \in 1..Len(calibration.edge_points) : calibration.edge_points[i].edge \in 0..3

\* C8: the ids of the live edge points are pairwise distinct, and
\* add_edge_point never returns an id an earlier add_edge_point returned
\* (since the calibration was last the default one), removed or not.
C8_IdsUniqueNeverReissued ==
    /\ NoDuplicates([ i \in 1..Len(calibration.edge_points) |-> calibration.edge_points[i].id ])
    /\ NoDuplicates(issued)

\* an id was issued, removed, and a later add drew a fresh id
C8_Witness ==
    /\ Len(issued) = 2
    /\ EdgePointIds(calibration) = { issued[2] }

\* C9: next_edge_point_id >= 100 and strictly greater than every live id;
\* the first id issued after the default calibration or a reset is 100.
C9_NextIdAboveLiveIds ==
    /\ calibration.next_edge_point_id >= 100
    /\ \A id \in EdgePointIds(calibration) : id < calibration.next_edge_point_id
    /\ issued = << >> => calibration.next_edge_point_id = 100
    /\ issued # << >> => issued[1] = 100

\* the first id was issued and its point is live
C9_Witness ==
    /\ issued = << 100 >>
    /\ EdgePointIds(calibration) = { 100 }

\* ----------------------------------------------------------------------
\* Properties of the loopback writer (checked under SpecOut)
\* ----------------------------------------------------------------------
\* every call so far reached the device and had its write answered EAGAIN
AllAnsweredEagain ==
    \A i \in 1..Len(calls) :
        /\ calls[i].attempts >= 1
        /\ \A j \in 1..Len(calls[i].script) : calls[i].script[j] = "EAGAIN"

\* C10: if the loopback device answers every write with EAGAIN/EWOULDBLOCK,
\* then each of N write_frame_rgb calls returns Ok after a single write
\* attempt (no retry) and dropped_count has grown by exactly N.
C10_EagainDropsWithoutBlocking ==
    AllAnsweredEagain =>
        /\ \A i \in 1..Len(calls) : calls[i].ret = "Ok" /\ calls[i].attempts = 1
        /\ camera.dropped_count = Len(calls)

\* two frames in a row were written to a device that answered EAGAIN
C10_Witness ==
    /\ Len(calls) >= 2
    /\ AllAnsweredEagain
    /\ camera.dropped_count = Len(calls)

\* ----------------------------------------------------------------------
\* Properties of the frame loop (checked under SpecFrame)
\* ----------------------------------------------------------------------
\* a step does something of a preview encode: a slot is written or the
\* preview counters advance
PreviewEncodeStep ==
    \/ preview_frame' # preview_frame
    \/ raw_preview_frame' # raw_preview_frame
    \/ stats'.total_preview_encode_us > stats.total_preview_encode_us
    \/ stats'.preview_frames_encoded > stats.preview_frames_encoded

\* C11: for a frame processed while preview_clients_active is false (the
\* flag read for the frame was false) the pipeline encodes no preview:
\* total_preview_encode_us and preview_frames_encoded do not advance and
\* neither preview slot is modified.
C11_NoPreviewWorkWhenInactive ==
    [][PreviewEncodeStep => f_flag]_vars

\* the first frame, due for a preview by its frame_count, was recorded
\* with the flag false: nothing was encoded
C11_Witness ==
    /\ p_pc = "top"
    /\ stats.frames_processed = 1
    /\ f_seq = 1
    /\ ~f_flag
    /\ stats.preview_frames_encoded = 0
    /\ preview_frame = 0

\* a step that answers a POST /api/video/settings
VideoRequestStep == video_resp' # video_resp

\* the request just answered was checked against the capabilities
Validated(r) == r.caps_ok /\ resolution_valid(r.req) /\ fps_valid(r.req)

C13_WitnessCleared ==
    /\ video_resp.status = "AlreadyCurrent"
    /\ pending = PendingDefault
    /\ file_video # RunningVideo

\* ----------------------------------------------------------------------
\* Properties of the camera controls (checked under SpecControls)
\* ----------------------------------------------------------------------
\* a step that answers a request of the given kind
CtrlStep(op) == ctrl_resp'.seq # ctrl_resp.seq /\ ctrl_resp'.op = op

LoopPositions ==
    { "top", "next", "frame", "enabled", "decode", "write", "preview",
      "update_preview", "update_raw_preview", "record" }

\* C15: frame-level errors never end the pipeline: after a decode failure
\* (nothing written) and after every outcome of the loopback write the loop
\* goes on; inside the loop only a failed stream.next() returns an error
C15_OnlyStreamFailureEndsLoop ==
    [][/\ (p_pc = "decode" /\ p_pc' # p_pc)
            => /\ p_pc' \in { "write", "top" }
               /\ camera' = camera /\ stats' = stats
       /\ (p_pc = "write" /\ p_pc' # p_pc) => p_pc' = "preview"
       /\ (p_pc \in LoopPositions /\ p_pc' = "failed") => p_pc = "next"]_vars

C15_Witness ==
    /\ process = "running" /\ p_pc = "next"
    /\ f_seq = 2
    /\ stats.frames_processed = 1
    /\ camera.dropped_count = 1

\* ----------------------------------------------------------------------
\* Properties of the process exit (checked under SpecRestart)
\* ----------------------------------------------------------------------
\* C16: the exit status is 0 on graceful shutdown, the self-restart
\* included, and non-zero when the pipeline returned a fatal error or the
\* web server failed
C16_ExitStatusTellsFailure ==
    exit_status # None
        => (exit_status[1].code # 0
               <=> exit_status[1].cause \in { "pipeline error", "server error" })

\* the self-restart and a pipeline that returned Ok exit with status 0
C16_GracefulExitIsZero ==
    (exit_status # None /\ exit_status[1].cause \in { "restart", "pipeline ok" })
        => exit_status[1].code = 0

\* ----------------------------------------------------------------------
\* Properties of the calibration handlers' responses (checked under SpecCal)
\* ----------------------------------------------------------------------
\* the id is a corner id or the id of a live edge point
KnownPointId(cal, id) == id \in 0..3 \/ HasEdgePoint(cal, id)

\* C17: a single-point update or a delete that names an id which is neither
\* a corner id nor the id of a live edge point is answered with 404, in
\* every calibration the handlers can reach
C17_UnknownIdAnswered404 ==
    \A id \in InIds :
        ~KnownPointId(calibration, id)
            => /\ update_point_status(calibration, id) = "NOT_FOUND"
               /\ delete_point_status(calibration, id) = "NOT_FOUND"

\* the delete half: a delete of an id no live edge point has is answered 404
C17_DeleteUnknownAnswered404 ==
    \A id \in InIds :
        ~HasEdgePoint(calibration, id) => delete_point_status(calibration, id) = "NOT_FOUND"

\* the entries of a bulk request whose id the calibration knows
KnownEntries(cal, points) == SelectSeq(points, LAMBDA e : KnownPointId(cal, e.id))

\* C18: update_calibration_point with an id that is neither 0..3 nor a live
\* edge-point id leaves the whole Calibration unchanged, and a bulk update
\* skips such an entry while it applies every other entry of the request
C18_UnknownIdIgnored ==
    /\ \A id \in InIds, p \in InPoints :
          ~KnownPointId(calibration, id)
              => update_calibration_point(calibration, id, p[1], p[2]) = calibration
    /\ \A points \in BulkRequests :
          ApplyPoints(calibration, points)
              = ApplyPoints(calibration, KnownEntries(calibration, points))

\* after the bulk request that moves edge point 100 and names the unknown 999
C18_Witness ==
    LET points == << PointUpdate(100, << 15, -5 >>), PointUpdate(999, << 3, 1 >>) >>
    IN  /\ HasEdgePoint(calibration, 100)
        /\ ~KnownPointId(calibration, 999)
        /\ KnownEntries(calibration, points) = << points[1] >>
        /\ calibration.edge_points[FirstIndexOf(calibration, 100)].x = One
        /\ calibration.edge_points[FirstIndexOf(calibration, 100)].y = 0
        /\ ApplyPoints(calibration, points) = calibration

\* C19: from any reachable calibration, Reset yields exactly the default
\* Calibration: corners (0.1,0.1), (0.9,0.1), (0.9,0.9), (0.1,0.9), no edge
\* points, next id 100 and enabled, whatever the calibration was before
C19_ResetYieldsDefault ==
    reset_calibration(calibration) =
        [ corners |-> << Point(1, 1), Point(9, 1), Point(9, 9), Point(1, 9) >>,
          edge_points |-> << >>,
          next_edge_point_id |-> 100,
          enabled |-> TRUE ]

\* a calibration that differs from the default in every component
C19_Witness ==
    /\ calibration.corners # CalibrationDefault.corners
    /\ calibration.edge_points # << >>
    /\ calibration.next_edge_point_id > FirstEdgePointId
    /\ ~calibration.enabled
    /\ reset_calibration(calibration) = CalibrationDefault

\* the elements of a sequence
Range(s) == { s[i] : i \in 1..Len(s) }

\* s keeps exactly the elements of t whose id is not id, in t's order
KeepsAllBut(s, t, id) ==
    /\ \A k \in 1..Len(s) : s[k].id # id
    /\ Len(s) = Cardinality({ i \in 1..Len(t) : t[i].id # id })
    /\ \A i \in 1..Len(t) : t[i].id # id => t[i] \in Range(s)
    /\ \A k1, k2 \in 1..Len(s) :
          k1 < k2 => \E i1, i2 \in 1..Len(t) : i1 < i2 /\ t[i1] = s[k1] /\ t[i2] = s[k2]

\* C20: remove_edge_point(id) deletes exactly the edge points whose id is
\* id and returns true iff one existed; the other edge points keep their
\* values and order, corners, enabled and next_edge_point_id are unchanged,
\* and add_edge_point followed by remove_edge_point of the returned id gives
\* back the previous set of edge points
C20_RemoveDeletesExactlyThatId ==
    /\ \A id \in InIds :
          LET r == remove_edge_point(calibration, id)
          IN  /\ KeepsAllBut(r.edge_points, calibration.edge_points, id)
              /\ remove_edge_point_ret(calibration, id) <=> HasEdgePoint(calibration, id)
              /\ r.corners = calibration.corners
              /\ r.enabled = calibration.enabled
              /\ r.next_edge_point_id = calibration.next_edge_point_id
    /\ \A edge \in InEdges, p \in InPoints :
          LET added == add_edge_point(calibration, edge, p[1], p[2])
              removed == remove_edge_point(added, calibration.next_edge_point_id)
          IN  /\ HasEdgePoint(added, calibration.next_edge_point_id)
              /\ Range(removed.edge_points) = Range(calibration.edge_points)
              /\ Len(removed.edge_points) = Len(calibration.edge_points)

\* a delete has acted: two ids were issued and only the second is left
C20_Witness ==
    /\ calibration.next_edge_point_id = FirstEdgePointId + 2
    /\ Len(calibration.edge_points) = 1
    /\ HasEdgePoint(calibration, FirstEdgePointId + 1)
    /\ ~HasEdgePoint(calibration, FirstEdgePointId)
    /\ ~remove_edge_point_ret(calibration, FirstEdgePointId)
    /\ remove_edge_point_ret(calibration, FirstEdgePointId + 1)

\* ----------------------------------------------------------------------
\* Properties of the cached transform (checked under SpecShared)
\* ----------------------------------------------------------------------
\* no calibration-mutating handler is between its first step and its last
NoMutatorInFlight == \A h \in Handlers : h_pc[h] = "idle"

\* C21: whenever no calibration-mutating handler is in flight, the cached
\* transform is from_calibration of the current calibration, for every
\* interleaving of concurrent add, delete, update, bulk-set and reset
C21_TransformFollowsCalibration ==
    NoMutatorInFlight => transform = from_calibration(calibration, Width, Height)

C21_Witness ==
    /\ NoMutatorInFlight
    /\ requests = MaxRequests
    /\ calibration.edge_points # << >>
    /\ calibration.corners # CalibrationDefault.corners
    /\ transform = from_calibration(calibration, Width, Height)

\* ----------------------------------------------------------------------
\* Properties of the colour conversion (checked under SpecColor)
\* ----------------------------------------------------------------------
\* the settings the fixed converter serves: BT.601 without range expansion
IsFastPath(c) == c.color_space = "Bt601" /\ c.input_range = "Full"

\* C22: when the configured color settings select a color space or range
\* other than the default fast path, the pipeline converts a YUYV frame with
\* the parameterized matrix and range expansion, not with the fixed BT.601
\* converter
C22_PipelineUsesConfiguredColor ==
    (color_call # None /\ color_call[1].by = "run_pipeline" /\ ~IsFastPath(color_call[1].color))
        => /\ color_call[1].converter = "yuyv_to_rgb_corrected"
           /\ color_call[1].rgb = yuyv_to_rgb_corrected(color_call[1].yuyv,
                                                        color_call[1].color.color_space,
                                                        color_call[1].color.input_range)

\* Y expanded from the limited range
ExpandedLuma(y) == clamp_u8(((y - 16) * 298) \div 256)

\* C25: with neutral chroma U = V = 128, for every luma pair and every color
\* space, yuyv_to_rgb_corrected emits achromatic pixels: R = G = B = Y in
\* Full range and R = G = B = clamp(((Y-16)*298)>>8, 0, 255) in Limited
\* range; limited black (Y = 16) is below 10 and full grey 128 within 5 of 128
C25_NeutralChromaIsAchromatic ==
    (/\ color_call # None
     /\ color_call[1].converter = "yuyv_to_rgb_corrected"
     /\ color_call[1].yuyv[2] = 128 /\ color_call[1].yuyv[4] = 128)
        => LET c == color_call[1]
               want0 == IF c.color.input_range = "Full" THEN c.yuyv[1]
                        ELSE ExpandedLuma(c.yuyv[1])
               want1 == IF c.color.input_range = "Full" THEN c.yuyv[3]
                        ELSE ExpandedLuma(c.yuyv[3])
           IN  /\ c.rgb = << want0, want0, want0, want1, want1, want1 >>
               /\ (c.color.input_range = "Limited" /\ c.yuyv[1] = 16) => c.rgb[1] < 10
               /\ (c.color.input_range = "Full" /\ c.yuyv[1] = 128)
                      => (c.rgb[1] > 123 /\ c.rgb[1] < 133)

C25_Witness ==
    /\ color_call # None
    /\ color_call[1].converter = "yuyv_to_rgb_corrected"
    /\ color_call[1].color = [ color_space |-> "Bt709", input_range |-> "Limited" ]
    /\ color_call[1].yuyv = << 235, 128, 16, 128 >>
    /\ color_call[1].rgb = << 254, 254, 254, 0, 0, 0 >>

\* ----------------------------------------------------------------------
\* Properties of the Coons-patch mesh
\* ----------------------------------------------------------------------
EdgeCount(cal, edge) == Len(get_edge_points(cal, edge))

\* the grid point equals the resampled edge point p (given times pscale)
GridPointIs(g, p, pscale) == PtScale(g.pt, pscale) = PtScale(p, g.scale)

MeshBoundaryAgrees(cal) ==
    LET m == SourceMesh_from_calibration(cal, Width, Height)
        cs == ResampleScale(m.cols)
        rs == ResampleScale(m.rows)
    IN  /\ m.cols = 2 + Max(EdgeCount(cal, 0), EdgeCount(cal, 2))
        /\ m.rows = 2 + Max(EdgeCount(cal, 1), EdgeCount(cal, 3))
        /\ DOMAIN m.grid = 0..(m.rows - 1)
        /\ \A row \in 0..(m.rows - 1) : DOMAIN m.grid[row] = 0..(m.cols - 1)
        /\ \A col \in 0..(m.cols - 1) :
             /\ GridPointIs(m.grid[0][col], m.top[col + 1], cs)
             /\ GridPointIs(m.grid[m.rows - 1][col], m.bottom[col + 1], cs)
        /\ \A row \in 0..(m.rows - 1) :
             /\ GridPointIs(m.grid[row][0], m.left[row + 1], rs)
             /\ GridPointIs(m.grid[row][m.cols - 1], m.right[row + 1], rs)

\* the calibration of test_source_mesh_with_edge_point: one edge point in
\* the middle of the top edge of the default quadrilateral
CalibrationTopMid == add_edge_point(CalibrationDefault, 0, 5, 2)

Abs(n) == IF n < 0 THEN 0 - n ELSE n

\* the LUT entry l lies within one pixel of the pixel position p (both in
\* tenths of a pixel)
WithinOnePixel(l, p) ==
    /\ Abs(l.x - p.x * l.d) <= One * Abs(l.d)
    /\ Abs(l.y - p.y * l.d) <= One * Abs(l.d)

Cross(o, a, b) == (a.x - o.x) * (b.y - o.y) - (a.y - o.y) * (b.x - o.x)

\* the corners run clockwise around a strictly convex quadrilateral
ConvexQuad(q) ==
    /\ Cross(q[1], q[2], q[3]) > 0
    /\ Cross(q[2], q[3], q[4]) > 0
    /\ Cross(q[3], q[4], q[1]) > 0
    /\ Cross(q[4], q[1], q[2]) > 0

CornersPreserved(cal, width, height) ==
    LET p == get_source_corners(cal, width, height)
    IN  /\ WithinOnePixel(lut(cal, width, height, 0, 0), p[1])
        /\ WithinOnePixel(lut(cal, width, height, width - 1, 0), p[2])
        /\ WithinOnePixel(lut(cal, width, height, width - 1, height - 1), p[3])
        /\ WithinOnePixel(lut(cal, width, height, 0, height - 1), p[4])

\* C23: for every calibration whose corners form a convex quadrilateral,
\* with or without edge points, the LUT maps the four destination corner
\* pixels to within one pixel of the source corners.
C23_LutCornersWithinOnePixel ==
    ConvexQuad(calibration.corners)
        => CornersPreserved(calibration, LutSize.width, LutSize.height)

\* the mesh-mode half: with edge points the four corner entries are the
\* source corners
C23_MeshModeCornersPreserved ==
    (calibration.edge_points # << >>)
        => CornersPreserved(calibration, LutSize.width, LutSize.height)

\* ----------------------------------------------------------------------
\* Properties of the frames written to the loopback device
\* ----------------------------------------------------------------------
BytesPerPixel(format) == IF format = "Yuyv" THEN 2 ELSE 3

\* lengths of rgb_data for a frame size: the right one and two wrong ones
FrameLens(width, height) ==
    { width * height * 3, width * height * 3 + 1, width * height * 2 }

\* C26: with the device open in its negotiated format, for every frame size
\* (odd widths included) a write_frame_rgb call hands the device exactly
\* W*H*bpp bytes, and an input whose length is not W*H*3 hands it nothing.
C26_WriteCarriesWholeFrame ==
    (camera.initialized /\ camera.file = "open") =>
        \A size \in InFrameSizes :
            \A len \in FrameLens(size[1], size[2]) :
                write_frame_rgb_len(camera.format, size[1], size[2], len)
                    = IF len = size[1] * size[2] * 3
                      THEN Some(size[1] * size[2] * BytesPerPixel(camera.format))
                      ELSE None

\* the same for even widths only
C26_EvenWidthCarriesWholeFrame ==
    (camera.initialized /\ camera.file = "open") =>
        \A size \in { z \in InFrameSizes : z[1] % 2 = 0 } :
            \A len \in FrameLens(size[1], size[2]) :
                write_frame_rgb_len(camera.format, size[1], size[2], len)
                    = IF len = size[1] * size[2] * 3
                      THEN Some(size[1] * size[2] * BytesPerPixel(camera.format))
                      ELSE None

\* ----------------------------------------------------------------------
\* Properties of the preview slots
\* ----------------------------------------------------------------------
\* a Vec that is empty or the JPEG of one frame published so far
WholeFrame(v) == v = EmptyVec \/ \E n \in 1..pub.seq : v = Jpeg(n)

\* C27: every Vec a reader of a preview slot returns is the empty initial
\* value or the complete JPEG of exactly one frame, whatever the pipeline is
\* publishing meanwhile, and a failed encode leaves the slot as it was.
C27_PreviewReadsAreWholeFrames ==
    /\ [](\A r \in Readers : rd[r].pc = "idle" => WholeFrame(rd[r].copy))
    /\ [][(pub.pc = "encode" /\ pub'.pc # "lock") => slot_bytes' = slot_bytes]_vars

\* a reader returned the JPEG of frame 1 while the pipeline holds the write
\* lock of that slot with half of frame 2 stored
C27_Witness ==
    /\ rd["get_raw_preview"].pc = "idle"
    /\ rd["get_raw_preview"].copy = Jpeg(1)
    /\ pub.pc = "store_rest" /\ pub.k = "raw" /\ pub.seq = 2
    /\ slot_bytes["raw"] = << 2, 1 >>
    /\ rd["preview_stream"].pc = "idle"

\* a failed encode of frame 2 was skipped over a slot holding frame 1
C27_WitnessFailedEncode ==
    /\ pub.seq = 2 /\ pub.k = "raw" /\ pub.pc = "encode"
    /\ slot_bytes["preview"] = Jpeg(1)

\* ----------------------------------------------------------------------
\* Properties of the shared-state locks
\* ----------------------------------------------------------------------
AtIo(t) == thread[t].pc > 0 /\ NextStep(t).kind = "io"

\* C28: no thread holds a lock on config, transform, camera_controls or
\* pending_video_settings at a step where it performs file or device I/O.
C28_NoLockHeldAcrossIo ==
    \A t \in Threads : AtIo(t) => Holds(t) = {}

\* the pipeline's per-frame capture and loopback write are done without a
\* lock
C28_FrameIoHoldsNoLock ==
    \A t \in Threads : (AtIo(t) /\ thread[t].op = "frame") => Holds(t) = {}

\* C29: every operation a thread has begun eventually completes.
C29_EveryOperationCompletes ==
    \A t \in Threads : (thread[t].pc > 0) ~> (thread[t].pc = 0)

\* thread t waits for a lock that a thread of S holds or has parked on
WaitsOn(t, S) ==
    /\ thread[t].pc > 0
    /\ NextStep(t).kind \in { "read", "write" }
    /\ LET g == guards[NextStep(t).on]
       IN  IF NextStep(t).kind = "read"
           THEN g.writer \in S \/ g.waiting \cap S # {}
           ELSE g.writer \in S \/ (g.readers \ { t }) \cap S # {}

\* no set of threads each of which waits on a thread of the set
C29_NoWaitCycle ==
    ~ \E S \in SUBSET Threads :
          /\ S # {}
          /\ \A t \in S : ~ENABLED ThreadStep(t) /\ WaitsOn(t, S)

\* ----------------------------------------------------------------------
\* Properties of the negotiated frame size
\* ----------------------------------------------------------------------
\* C30: whatever size the capture format is negotiated to, every warp is
\* done with a transform built for the width and height of the buffers.
C30_TransformSizeIsFrameSize ==
    warped # None =>
        /\ warped[1].transform.src_width = warped[1].buffers.width
        /\ warped[1].transform.src_height = warped[1].buffers.height
        /\ warped[1].transform.dst_width = warped[1].buffers.width
        /\ warped[1].transform.dst_height = warped[1].buffers.height

\* the same when the device accepts the configured size
C30_SameSizeWhenDeviceAccepts ==
    (warped # None /\ capture_format[1].width = Width /\ capture_format[1].height = Height) =>
        /\ warped[1].transform.dst_width = warped[1].buffers.width
        /\ warped[1].transform.dst_height = warped[1].buffers.height

\* ----------------------------------------------------------------------
\* output.rs: VirtualCamera::initialize against a loopback device that
\* accepts some of the formats
\* ----------------------------------------------------------------------
MaxInits == 3

initRest == << calVars, sharedVars, calls, previewVars, frameVars, respVars, ctrlVars,
               exitVars, colorVars, slotVars, lockingVars, negoVars, histVars, seenVars,
               statVars >>

formats_to_try_bgr_first == << "Bgr24", "Rgb24", "Yuyv" >>

\* let formats_to_try = [PixelFormat::Yuyv, PixelFormat::Rgb24, PixelFormat::Bgr24]
formats_to_try == << "Yuyv", "Rgb24", "Bgr24" >>

\* a loopback device: whether its path exists, the formats its VIDIOC_S_FMT
\* accepts, and whether a plain open succeeds once they were all rejected
LoopbackDevices ==
    { [ exists |-> FALSE, accepts |-> {}, raw_ok |-> FALSE ] } \cup
    { [ exists |-> TRUE, accepts |-> a, raw_ok |-> r ] :
          a \in SUBSET { "Yuyv", "Rgb24", "Bgr24" }, r \in BOOLEAN }

\* the for loop over formats_to_try: the first format for which
\* try_initialize_with_format returns Ok, None when every one is rejected
RECURSIVE try_formats(_, _)
try_formats(formats, dev) ==
    IF formats = << >> THEN None
    ELSE IF Head(formats) \in dev.accepts THEN Some(Head(formats))
    ELSE try_formats(Tail(formats), dev)

\* how initialize ends on an uninitialized camera: the NotFound return, the
\* loop over the formats, then try_raw_open
negotiate(dev) ==
    IF ~dev.exists THEN "fail"
    ELSE LET first == try_formats(formats_to_try, dev)
         IN  IF first # None THEN first[1]
             ELSE IF dev.raw_ok THEN "raw"
             ELSE "fail"

\* output.initialize() on the camera as it is, the first call or a later one
initialize_device ==
    /\ out_init.n < MaxInits
    /\ \E dev \in LoopbackDevices :
          LET r == initialize(camera, negotiate(dev))
          IN  /\ camera' = r.camera
              /\ out_init' = [ n |-> out_init.n + 1, exists |-> dev.exists,
                               accepts |-> dev.accepts, raw_ok |-> dev.raw_ok,
                               ret |-> r.ret, before |-> camera ]
    /\ UNCHANGED initRest

InitNext == initialize_device

SpecInit == Init /\ [][InitNext]_vars

\* C32: initialize on an uninitialized camera ends with the first of YUYV,
\* RGB24, BGR24 that the device accepts as the camera's format; with all
\* three rejected and the raw open succeeding the camera is initialized with
\* the format it had; it returns an error, the camera left as it was, only
\* when the raw open fails too; on an initialized camera it returns Ok and
\* changes nothing.
C32_FirstAcceptedFormatIsRemembered ==
    out_init.n >= 1 =>
        LET b == out_init.before
            a == out_init.accepts
        IN  IF b.initialized
            THEN camera = b /\ out_init.ret = "Ok"
            ELSE IF a # {}
            THEN /\ out_init.ret = "Ok"
                 /\ camera.initialized /\ camera.file = "open"
                 /\ camera.format = IF "Yuyv" \in a THEN "Yuyv"
                                    ELSE IF "Rgb24" \in a THEN "Rgb24"
                                    ELSE "Bgr24"
            ELSE IF out_init.raw_ok
            THEN /\ out_init.ret = "Ok"
                 /\ camera = [ b EXCEPT !.initialized = TRUE, !.file = "open" ]
            ELSE out_init.ret = "Err" /\ camera = b /\ ~camera.initialized

\* a device that rejects YUYV and accepts both others left the camera on
\* RGB24, and a second initialize on a device that would now accept YUYV
\* changed nothing
C32_Witness ==
    /\ out_init.n = 2
    /\ out_init.before.initialized /\ out_init.before.format = "Rgb24"
    /\ "Yuyv" \in out_init.accepts
    /\ camera.format = "Rgb24"

\* all three formats rejected and the raw open succeeded
C32_WitnessRawOpen ==
    /\ out_init.n = 1 /\ out_init.accepts = {} /\ out_init.raw_ok
    /\ camera.initialized /\ camera.format = "Yuyv"

\* ----------------------------------------------------------------------
\* server.rs: request_system_restart as the two calls it makes, beside the
\* proposals of other requests
\* ----------------------------------------------------------------------
pendingRest == << calVars, lockVars, handlerVars, pipeVars, mainVars, outVars, previewVars,
                  frameVars, respVars, ctrlVars, exitVars, colorVars, slotVars,
                  lockingVars, negoVars, histVars, initVars, statVars >>

\* PendingVideoSettings::has_changes, which the handler spells out on its clone
has_changes(p) == p.width # None \/ p.height # None \/ p.fps # None

\* let pending = state.get_pending_video_settings(): a clone taken under
\* the read lock, which is released at once
restart_get_pending ==
    /\ process = "running"
    /\ r_seen = None
    /\ r_seen' = Some(pending)
    /\ UNCHANGED << flagVars, videoVars, pendingRest >>

\* if !has_pending { return "No pending changes to apply." }
\* state.request_restart()
restart_decide ==
    /\ process = "running"
    /\ r_seen # None
    /\ restart_requested' = IF has_changes(r_seen[1]) THEN TRUE ELSE restart_requested
    /\ r_seen' = None
    /\ UNCHANGED << camera_release_requested, camera_released, videoVars, pendingRest >>

PendingNext ==
    \/ SetVideoSettings
    \/ restart_get_pending
    \/ restart_decide

SpecPending == Init /\ [][PendingNext]_vars

\* C38: in every reachable state needs_restart is true exactly when the
\* pending record has a width, height or fps; restart_requested becomes true
\* only in a state where the record has changes; and once true it stays true.
C38_RestartOnlyWithPendingChanges ==
    /\ [](pending.needs_restart <=>
            (pending.width # None \/ pending.height # None \/ pending.fps # None))
    /\ [][(~restart_requested /\ restart_requested') =>
            (pending'.width # None \/ pending'.height # None \/ pending'.fps # None)]_vars
    /\ [][restart_requested => restart_requested']_vars

\* the parts that hold: needs_restart follows the fields, restart_requested
\* is never cleared, and a restart is requested only by a handler whose
\* clone of the record had changes
C38_NeedsRestartIffHasChanges ==
    /\ [](pending.needs_restart <=> has_changes(pending))
    /\ [][restart_requested => restart_requested']_vars
    /\ [][(~restart_requested /\ restart_requested') =>
            (r_seen # None /\ has_changes(r_seen[1]))]_vars

\* ----------------------------------------------------------------------
\* server.rs: the statistics counters, one atomic operation at a time
\* ----------------------------------------------------------------------
statsRest == << calVars, lockVars, handlerVars, pipeVars, flagVars, videoVars, mainVars,
                outVars, previewVars, f_count, f_flag, f_preview, respVars, ctrlVars,
                exitVars, colorVars, slotVars, lockingVars, negoVars, histVars, initVars,
                seenVars >>

\* record_frame_stats: frames_processed.fetch_add(1); the four timing sums
\* are not among the modelled counters
record_frames_processed ==
    /\ process = "running"
    /\ st_run.rec = "idle"
    /\ f_seq < MaxFrames
    /\ f_seq' = f_seq + 1
    /\ stats' = [ stats EXCEPT !.frames_processed = @ + 1 ]
    /\ \E preview_encode_us \in { None } \cup { Some(us) : us \in InMicros } :
          st_run' = IF preview_encode_us = None THEN st_run
                    ELSE [ st_run EXCEPT !.rec = "us", !.us = preview_encode_us[1] ]
    /\ UNCHANGED statsRest

\* total_preview_encode_us.fetch_add(preview_us)
record_preview_us ==
    /\ process = "running"
    /\ st_run.rec = "us"
    /\ stats' = [ stats EXCEPT !.total_preview_encode_us = @ + st_run.us ]
    /\ st_run' = [ st_run EXCEPT !.rec = "count" ]
    /\ UNCHANGED << f_seq, statsRest >>

\* preview_frames_encoded.fetch_add(1)
record_preview_count ==
    /\ process = "running"
    /\ st_run.rec = "count"
    /\ stats' = [ stats EXCEPT !.preview_frames_encoded = @ + 1 ]
    /\ st_run' = [ st_run EXCEPT !.rec = "idle" ]
    /\ UNCHANGED << f_seq, statsRest >>

\* PerformanceStats::reset: frames_processed.store(0)
reset_frames_processed ==
    /\ process = "running"
    /\ st_run.rst = "idle"
    /\ st_run.resets < MaxRequests
    /\ stats' = [ stats EXCEPT !.frames_processed = 0 ]
    /\ st_run' = [ st_run EXCEPT !.rst = "us", !.resets = @ + 1 ]
    /\ UNCHANGED << f_seq, statsRest >>

\* total_preview_encode_us.store(0)
reset_preview_us ==
    /\ process = "running"
    /\ st_run.rst = "us"
    /\ stats' = [ stats EXCEPT !.total_preview_encode_us = 0 ]
    /\ st_run' = [ st_run EXCEPT !.rst = "count" ]
    /\ UNCHANGED << f_seq, statsRest >>

\* preview_frames_encoded.store(0)
reset_preview_count ==
    /\ process = "running"
    /\ st_run.rst = "count"
    /\ stats' = [ stats EXCEPT !.preview_frames_encoded = 0 ]
    /\ st_run' = [ st_run EXCEPT !.rst = "idle" ]
    /\ UNCHANGED << f_seq, statsRest >>

\* get_stats: let frames = frames_processed.load()
get_stats_frames ==
    /\ process = "running"
    /\ st_run.rd = "idle"
    /\ st_run' = [ st_run EXCEPT !.rd = "preview", !.frames = stats.frames_processed ]
    /\ UNCHANGED << stats, f_seq, statsRest >>

\* let preview_frames = preview_frames_encoded.load()
get_stats_preview_frames ==
    /\ process = "running"
    /\ st_run.rd = "preview"
    /\ st_run' = [ st_run EXCEPT !.rd = "idle",
                                 !.preview_frames = stats.preview_frames_encoded ]
    /\ UNCHANGED << stats, f_seq, statsRest >>

StatsNext ==
    \/ record_frames_processed
    \/ record_preview_us
    \/ record_preview_count
    \/ reset_frames_processed
    \/ reset_preview_us
    \/ reset_preview_count
    \/ get_stats_frames
    \/ get_stats_preview_frames

SpecStats == Init /\ [][StatsNext]_vars

\* C40: in every state reachable by interleaving record_frame_stats with
\* get_stats and reset, preview_frames_encoded is at most frames_processed,
\* and once nobody is inside record_frame_stats or reset the counters
\* describe whole frames: the encode time is that of the counted encodes.
C40_CountersDescribeWholeFrames ==
    /\ stats.preview_frames_encoded <= stats.frames_processed
    /\ (st_run.rec = "idle" /\ st_run.rst = "idle") =>
           \E us \in InMicros :
               stats.total_preview_encode_us = us * stats.preview_frames_encoded

\* as long as no reset was started the counters do agree
C40_WithoutResetCountersAgree ==
    st_run.resets = 0 =>
        /\ stats.preview_frames_encoded <= stats.frames_processed
        /\ (st_run.rec = "idle" =>
               \E us \in InMicros :
                   stats.total_preview_encode_us = us * stats.preview_frames_encoded)

\* ----------------------------------------------------------------------
\* Properties of the loop body
\* ----------------------------------------------------------------------
\* C31: the buffer handed to the loopback writer for a frame is the warped
\* one if and only if the enabled flag read for that frame was true, else the
\* decoded frame; a step that changes the calibration in this specification
\* is an enable or disable and changes the enabled flag only, leaving the
\* cached transform as it was.
C31_WarpedIffEnabled ==
    /\ [](f_hist.decoded =>
            f_hist.out = Some(IF f_hist.enabled THEN "warped" ELSE "decoded"))
    /\ [][calibration' # calibration =>
            /\ calibration' = [ calibration EXCEPT !.enabled = ~calibration.enabled ]
            /\ transform' = transform]_vars

\* the second frame went out unwarped after a disable, the first one warped
C31_Witness ==
    /\ f_hist.seq = 2 /\ f_hist.decoded
    /\ ~f_hist.enabled /\ f_hist.out = Some("decoded")
    /\ ~calibration.enabled
    /\ transform = from_calibration(CalibrationDefault, Width, Height)
    /\ camera.frame_count = 2

\* C33: over any sequence of captured frames the decode-failure warning is
\* logged at most once per 100 captured frames; in particular two consecutive
\* captured frames never both log it.
C33_NoTwoConsecutiveWarnings == ~(f_hist.warned /\ f_hist.prev_warned)

\* the warning is logged only by a frame that failed to decode while the
\* count of processed frames was a multiple of 100
C33_WarningOnlyOnFailedDecode == f_hist.warned => ~f_hist.decoded /\ f_count % 100 = 0

\* C34: while a preview client stays active, a processed frame is encoded
\* if and only if it is the third processed frame since the last encoded
\* one, whatever frames were skipped and whenever the statistics were logged.
C34_EncodeEveryThirdProcessedFrame ==
    (f_hist.decoded /\ f_hist.gap >= 1) => (f_hist.encoded <=> f_hist.gap = 3)

\* without a statistics log between them, encodes are three processed
\* frames apart: an encode leaves the count one past a multiple of three or,
\* logged, at 0
C34_EncodeLeavesCountAtOne ==
    (f_hist.decoded /\ f_hist.encoded) => (f_count = 0 \/ f_count % 3 = 1)

\* ----------------------------------------------------------------------
\* Properties of the loopback writer's counters
\* ----------------------------------------------------------------------
\* the write_frame_rgb calls so far that returned Ok
OkCalls == { i \in 1..Len(calls) : calls[i].ret = "Ok" }

\* those of them whose write_all ended on EAGAIN: the frame was dropped
DroppedCalls == { i \in OkCalls : write_all(calls[i].script, 0).res = "EAGAIN" }

\* C39: frame_count counts only the frames the device accepted, a frame
\* dropped on EAGAIN counts in dropped_count and not in frame_count, so that
\* frame_count + dropped_count is the number of write_frame_rgb calls that
\* returned Ok.
C39_CountersPartitionOkWrites ==
    /\ camera.dropped_count = Cardinality(DroppedCalls)
    /\ camera.frame_count = Cardinality(OkCalls \ DroppedCalls)
    /\ camera.frame_count + camera.dropped_count = Cardinality(OkCalls)

\* what the counters do hold: frame_count is the number of calls that
\* returned Ok, the dropped ones included, and dropped_count the number of
\* those that were dropped
C39_FrameCountCountsOkWrites ==
    /\ camera.frame_count = Cardinality(OkCalls)
    /\ camera.dropped_count = Cardinality(DroppedCalls)

\* ----------------------------------------------------------------------
\* Properties of the video-settings proposals
\* ----------------------------------------------------------------------
\* a step of POST /api/video/settings: the only steps that touch the
\* response record or the video settings
VideoStep ==
    \/ video_resp' # video_resp
    \/ pending' # pending
    \/ config_video' # config_video
    \/ file_video' # file_video

NothingPending ==
    /\ pending.width = None /\ pending.height = None /\ pending.fps = None
    /\ ~pending.needs_restart

\* C35: whenever no settings are pending, the video triple of the
\* configuration, in memory and in the file, is the running one.
C35_NoPendingMeansRunningConfig ==
    NothingPending => (config_video = RunningVideo /\ file_video = RunningVideo)

\* C36: a proposal made while the camera capabilities cannot be queried is
\* not accepted: the configuration, the file and the pending record stay as
\* they were.
C36_UnvalidatedProposalChangesNothing ==
    [][(VideoStep /\ ~video_resp'.caps_ok) =>
           /\ pending' = pending
           /\ config_video' = config_video
           /\ file_video' = file_video]_vars

\* the consequence drawn from it: a pending record made by a proposal that
\* could not be validated names a resolution and framerate the camera lists
C36_UnvalidatedNeverMarksUnsupported ==
    (~video_resp.caps_ok /\ pending.needs_restart /\ pending = PendingFor(video_resp.req))
        => (resolution_valid(video_resp.req) /\ fps_valid(video_resp.req))

\* C37: a proposal of a new triple during which a write of the
\* configuration file fails answers with an error and leaves config.video
\* as it was and the pending record without changes, needs_restart false.
C37_FailedSaveLeavesStateAsBefore ==
    [][(/\ VideoStep
        /\ video_resp'.status \in { "RestartRequired", "SaveFailed" }
        /\ (~video_resp'.saved_config \/ ~video_resp'.saved_camera)) =>
           /\ video_resp'.status = "SaveFailed"
           /\ config_video' = config_video
           /\ pending'.width = None /\ pending'.height = None /\ pending'.fps = None
           /\ ~pending'.needs_restart]_vars
====
